---- MODULE Spec2Model ----
\* A model of can-bridge: the per-interface message ring buffer, the send
\* metrics, the interface registry with its sender, watchdog and monitor, and
\* the goroutine-level interleaving of senders, watchdog and monitor.
EXTENDS Integers, Sequences, FiniteSets, TLC

VARIABLES
    \* ---- InterfaceMessageBuffer (one buffer object) ----
    buf,            \* [messages, maxSize, totalReceived]
    bufHistory,     \* ghost: every message added since creation or the last Clear
    bufClock,       \* arrival counter, the Timestamp the capture loop stamps
    \* ---- InterfaceMetrics (one metrics object) ----
    metrics,        \* [TotalSent, TotalErrors, LastSendTime, LastErrorTime, LastErrorMsg,
                    \*  AvgLatency, MessageLatency]
    latHistory,     \* ghost: every latency recorded by RecordSuccess, in order
    latPlan,        \* the latencies the transport will show: [first, switchAt, then]
    \* ---- configuration, InterfaceManager, sockets, clock ----
    ports,          \* config.CanPorts
    interfaces,     \* InterfaceManager.interfaces: name -> device (an index of heap)
    heap,           \* the CanInterface objects ever created: [Name, FD, Metrics]
    openFds,        \* send-path sockets opened and not yet closed
    now,            \* wall clock in seconds (0 is the zero time)
    phase,          \* "boot", "ready" (Initialize returned), "serving", "stopped"
    \* ---- Watchdog ----
    wdConfig,           \* [RecoveryEnabled, MaxRecoveryAttempts]
    recoveryAttempts,   \* Watchdog.recoveryAttempts: name -> attempts (absent = 0)
    wdSnap,             \* checkInterfaces: the GetAllInterfaces copy being ranged over
    wdPending,          \* checkInterfaces: the names of that copy not yet visited
    suspectTicks,       \* ghost: ticks completed since the name's probe first failed
    \* ---- Monitor ----
    healthChecks,   \* Monitor.healthChecks: name -> [ChecksPassed, ChecksFailed]
    \* ---- what the last calls returned ----
    initAll,        \* InitializeAll: [err, named, attempted, succeeded]
    lastSend,       \* SendCanMessage: [valid, msg, configured, registered, err, sendToCalls,
                    \*  canIf, sendOk, latency, before, after] (metrics per device)
    lastStatus,     \* getInterfaceStatuses: [valid, registered, statuses]
    \* ---- goroutines: two HTTP senders, the watchdog, a status query ----
    pc,             \* goroutine -> where it stands in its code
    target,         \* goroutine -> the interface name it is working on
    held,           \* goroutine -> the *CanInterface it obtained (an index of heap, 0 = none)
    snap,           \* watchdog, monitor -> its GetAllInterfaces copy
    pending,        \* watchdog, monitor -> the names of the copy not yet visited
    mutex,          \* device -> the goroutine inside its Lock/Unlock, or "free"
    fatal,          \* the runtime's fatal error: [valid, reader, readerTarget, writerTarget]
    calls,          \* operations the goroutines have begun
    \* ---- the frame codec: one frame from the sender to a capture loop ----
    hostOrder,      \* byte order of the host: "little" or "big"
    txFrame,        \* the message handed to sendMessage: [ID, Data]
    wire,           \* what the transport was handed: [kind, bytes]
    rxFrame,        \* what the capture loop logged: [valid, ID, Length, Data]
    \* ---- what the last GetRecentMessages call returned ----
    lastRecent,     \* [valid, count, before, after, result]
    \* ---- CanMessageListener: the capture side ----
    cml,            \* [buffers, listeners : name -> index (0 = no entry), ctxDone, shutdownReturned]
    bufObjs,        \* every InterfaceMessageBuffer StartListening allocated
    lsnObjs,        \* every interfaceListener allocated, with the state of its goroutine (loop) and whether a stop has returned for it (stopped)
    lsnFds,         \* the listening descriptors that are open
    lsnCalls,       \* API calls made on the listener so far
    lsnFrames,      \* frames the capture loops have read so far
    lastLsnOp,      \* the last call or arrival: [op, name, err, target, signalled, before, after]
    \* ---- Watchdog.Start / Watchdog.Stop and the monitor loop ----
    wdLife,         \* [running, stopChanClosed, wg, loops, spawned, ticks, ctxDone, panicked]
    wdCall,         \* where the caller of Start/Stop is: "idle", "Start:go", "Stop:close", "Stop:wait"
    wdCallsMade,    \* Start and Stop calls begun so far
    lastWdOp,       \* the last call that returned: [op, err, before, after, noops]
    \* ---- what the last registry call and the last watchdog check did ----
    lastInit,       \* the last InitializeSingle call: [valid, name, script, err, before, after]
    lastCleanup,    \* the Cleanup call that just returned: [valid, registered, failed, closes, after]
    lastWdCheck,    \* the last checkInterfaces iteration: [valid, name, at, stats, should, probed, healthy, reinit, recovered, before, after, raBefore, raAfter]
    \* ---- which locks are held when a socket is operated on ----
    lkPc,           \* goroutine -> where it stands in StartListening, StopListening, sendMessage or the capture loop
    lkHeld,         \* lock -> the goroutine holding it, or "free"
    lkListening,    \* whether a listener is registered and running
    lkCalls,        \* calls and loop iterations begun so far
    lastIo,         \* the last socket operation: [valid, op, by, locks, nth]
    \* ---- status queries running at the same time ----
    qs,             \* the Monitor: [healthChecks (index of trackers, 0 = no entry), trackers, probes, begun]
    qPc,            \* status query -> [at, tracker, healthy, seen]
    \* ---- InterfaceSetupManager and the requests that change its configuration ----
    setupConfig,    \* InterfaceSetupManager.config
    suPc,           \* setup request -> [at, originalConfig, tempConfig]
    suCalls,        \* requests begun so far
    lastSetup       \* the last UpdateSetupConfig call made on its own: [valid, config, err, after]

bufVars == <<buf, bufHistory, bufClock>>
metVars == <<metrics, latHistory, latPlan>>
regVars == <<ports, interfaces, heap, openFds, now, phase>>
wdVars == <<wdConfig, recoveryAttempts, wdSnap, wdPending, suspectTicks>>
monVars == <<healthChecks>>
outVars == <<initAll, lastSend, lastStatus>>
sysVars == <<regVars, wdVars, monVars, outVars>>
concVars == <<pc, target, held, snap, pending, mutex, fatal, calls>>
codecVars == <<hostOrder, txFrame, wire, rxFrame>>
lsnVars == <<cml, bufObjs, lsnObjs, lsnFds, lsnCalls, lsnFrames, lastLsnOp>>
lifeVars == <<wdLife, wdCall, wdCallsMade, lastWdOp>>
obsVars == <<lastInit, lastWdCheck, lastCleanup>>
lockVars == <<lkPc, lkHeld, lkListening, lkCalls, lastIo>>
queryVars == <<qs, qPc>>
setupVars == <<setupConfig, suPc, suCalls, lastSetup>>
lateVars == <<lockVars, queryVars, setupVars>>
moreVars == <<lsnVars, lifeVars, obsVars, lateVars>>
extVars == <<codecVars, lastRecent, moreVars>>
vars == <<bufVars, metVars, sysVars, concVars, extVars>>

\* ---------------------------------------------------------------- helpers

Min(a, b) == IF a < b THEN a ELSE b

Range(s) == {s[i] : i \in 1..Len(s)}

\* The last k elements of s (all of s when k >= Len(s)).
LastN(s, k) == SubSeq(s, Len(s) - Min(Len(s), k) + 1, Len(s))

RECURSIVE SumSeq(_)
SumSeq(s) ==
    IF s = <<>> THEN 0
    ELSE IF Len(s) = 1 THEN s[1]
    ELSE LET h == Len(s) \div 2
         IN  SumSeq(SubSeq(s, 1, h)) + SumSeq(SubSeq(s, h + 1, Len(s)))

\* ------------------------------------------------------- bounds of the model

MaxCap == 3         \* largest ring-buffer capacity tried
MaxAdds == 7        \* AddMessage calls per run
MaxSends == 150     \* successful sends per run of the metrics specification
MaxErrors == 1      \* failed sends per run of the metrics specification

\* ------------------------------------------------ InterfaceMessageBuffer

MsgIds == {1, 2}

NewInterfaceMessageBuffer(maxSize) ==
    [messages |-> <<>>, maxSize |-> maxSize, totalReceived |-> 0]

\* A plausible slip: evict the newest entry instead of the oldest.
AddMessageEvictNewest(b, msg) ==
    LET appended == Append(b.messages, msg)
    IN  [b EXCEPT !.totalReceived = @ + 1,
                  !.messages = IF Len(appended) > b.maxSize
                               THEN SubSeq(appended, 1, Len(appended) - 1)
                               ELSE appended]

AddMessage(b, msg) ==
    LET appended == Append(b.messages, msg)
    IN  [b EXCEPT !.totalReceived = @ + 1,
                  !.messages = IF Len(appended) > b.maxSize
                               THEN Tail(appended)
                               ELSE appended]

Clear(b) == [b EXCEPT !.messages = <<>>, !.totalReceived = 0]

GetStatistics(b) ==
    [totalReceived |-> b.totalReceived,
     bufferedCount |-> Len(b.messages),
     maxBufferSize |-> b.maxSize]

\* A plausible slip: the first count messages are returned instead of the last.
GetRecentMessagesOldest(b, count) ==
    [buf |-> b,
     result |-> IF count <= 0 THEN <<>>
                ELSE IF count >= Len(b.messages) THEN b.messages
                ELSE SubSeq(b.messages, 1, count)]

\* GetRecentMessages: the buffer after the call and the copy returned.
GetRecentMessages(b, count) ==
    [buf |-> b,
     result |-> IF count <= 0 THEN <<>>
                ELSE IF count >= Len(b.messages) THEN b.messages
                ELSE LET start == Len(b.messages) - count
                     IN  [i \in 1..count |-> b.messages[start + i]]]

NoRecent ==
    [valid |-> FALSE, count |-> 0, before |-> NewInterfaceMessageBuffer(1),
     after |-> NewInterfaceMessageBuffer(1), result |-> <<>>]

BufInit ==
    /\ \E c \in 1..MaxCap : buf = NewInterfaceMessageBuffer(c)
    /\ bufHistory = <<>>
    /\ bufClock = 0

BufAdd ==
    /\ bufClock < MaxAdds
    /\ \E id \in MsgIds :
         LET msg == [ID |-> id, Timestamp |-> bufClock + 1, Direction |-> "RX"]
         IN  /\ buf' = AddMessage(buf, msg)
             /\ bufHistory' = Append(bufHistory, msg)
    /\ bufClock' = bufClock + 1

BufClear ==
    /\ bufHistory # <<>>
    /\ buf' = Clear(buf)
    /\ bufHistory' = <<>>
    /\ UNCHANGED bufClock

\* GET /api/messages/:interface/recent?count=N on the buffer.
BufRecent ==
    /\ \E count \in (-1)..(MaxCap + 1) :
         LET r == GetRecentMessages(buf, count)
         IN  /\ buf' = r.buf
             /\ lastRecent' = [valid |-> TRUE, count |-> count, before |-> buf,
                               after |-> r.buf, result |-> r.result]
    /\ UNCHANGED <<bufHistory, bufClock>>

\* ------------------------------------------------------ InterfaceMetrics

\* The errors SendCanMessage returns (sender.go); nil is no error.
ErrNone == "nil"
ErrNotConfigured == "interface is not configured"
ErrNotInitialized == "interface not initialized"
ErrDataTooLong == "data exceeds maximum length"
ErrTransport == "sendto failed"

LatencyWindow == 100

NewInterfaceMetrics ==
    [TotalSent |-> 0, TotalErrors |-> 0, LastSendTime |-> 0, LastErrorTime |-> 0,
     LastErrorMsg |-> "", AvgLatency |-> 0, MessageLatency |-> <<>>]

\* A plausible slip: the window is never trimmed.
RecordSuccessNoEvict(m, latency, t) ==
    LET window == Append(m.MessageLatency, latency)
    IN  [m EXCEPT !.TotalSent = @ + 1,
                  !.LastSendTime = t,
                  !.MessageLatency = window,
                  !.AvgLatency = SumSeq(window) \div Len(window)]

RecordSuccess(m, latency, t) ==
    LET appended == Append(m.MessageLatency, latency)
        window == IF Len(appended) > LatencyWindow THEN Tail(appended) ELSE appended
        totalLatency == SumSeq(window)
    IN  [m EXCEPT !.TotalSent = @ + 1,
                  !.LastSendTime = t,
                  !.MessageLatency = window,
                  !.AvgLatency = IF Len(window) > 0
                                 THEN totalLatency \div Len(window)
                                 ELSE @]

RecordError(m, err, t) ==
    [m EXCEPT !.TotalErrors = @ + 1, !.LastErrorTime = t, !.LastErrorMsg = err]

\* The latency of the i-th successful send under a plan.
PlanLatency(plan, i) == IF i <= plan.switchAt THEN plan.first ELSE plan.then

LatencyPlans ==
    [first : {4}, switchAt : {0, 50, 120}, then : {1, 7}]

\* time.Now() as this metrics object sees it: every Record call reads a later
\* instant than the one before (0 is the zero time).
MetNow(m) == m.TotalSent + m.TotalErrors + 1

MetInit ==
    /\ metrics = NewInterfaceMetrics
    /\ latHistory = <<>>
    /\ latPlan \in LatencyPlans

MetSendOk ==
    /\ metrics.TotalSent < MaxSends
    /\ LET latency == PlanLatency(latPlan, metrics.TotalSent + 1)
       IN  /\ metrics' = RecordSuccess(metrics, latency, MetNow(metrics))
           /\ latHistory' = Append(latHistory, latency)
    /\ UNCHANGED latPlan

MetSendFail ==
    /\ metrics.TotalErrors < MaxErrors
    /\ metrics' = RecordError(metrics, ErrTransport, MetNow(metrics))
    /\ UNCHANGED <<latHistory, latPlan>>

\* ------------------------------------------ InterfaceStats.SuccessRate

MaxStatRecords == 6    \* sends recorded on the metrics object per run

\* A uint64 as four 16-bit limbs, least significant first.
Limb == 2 ^ 16

U64(n) == <<n % Limb, (n \div Limb) % Limb, 0, 0>>

SubLimb(x, y, borrow) ==
    [v |-> (x - y - borrow) % Limb, b |-> IF x - y - borrow < 0 THEN 1 ELSE 0]

\* a - b on uint64: modulo 2^64.
Sub64(a, b) ==
    LET s1 == SubLimb(a[1], b[1], 0)
        s2 == SubLimb(a[2], b[2], s1.b)
        s3 == SubLimb(a[3], b[3], s2.b)
        s4 == SubLimb(a[4], b[4], s3.b)
    IN  <<s1.v, s2.v, s3.v, s4.v>>

Le64(a, b) ==
    \/ a = b
    \/ \E i \in 1..4 : a[i] < b[i] /\ \A j \in (i + 1)..4 : a[j] = b[j]

\* GetStats: the counters of the snapshot.
GetStats(m) ==
    [TotalSent |-> m.TotalSent, TotalErrors |-> m.TotalErrors,
     LastSendTime |-> m.LastSendTime, LastErrorTime |-> m.LastErrorTime,
     LastErrorMsg |-> m.LastErrorMsg, AvgLatency |-> m.AvgLatency]

\* SuccessRate: 100 when nothing was sent, else
\* 100 * float64(TotalSent - TotalErrors) / float64(TotalSent); the numerator
\* is the uint64 difference.  The rate is never negative, and it is at most
\* 100 exactly when that difference is at most TotalSent.
SuccessRateNumerator(st) == Sub64(U64(st.TotalSent), U64(st.TotalErrors))

SuccessRateInRange(st) ==
    st.TotalSent = 0 \/ Le64(SuccessRateNumerator(st), U64(st.TotalSent))

\* sendMessage on one device, the transport accepting the frame.
StatSendOk ==
    /\ metrics.TotalSent + metrics.TotalErrors < MaxStatRecords
    /\ LET latency == PlanLatency(latPlan, metrics.TotalSent + 1)
       IN  /\ metrics' = RecordSuccess(metrics, latency, MetNow(metrics))
           /\ latHistory' = Append(latHistory, latency)
    /\ UNCHANGED latPlan

\* sendMessage on one device, the transport refusing the frame.
StatSendFail ==
    /\ metrics.TotalSent + metrics.TotalErrors < MaxStatRecords
    /\ metrics' = RecordError(metrics, ErrTransport, MetNow(metrics))
    /\ UNCHANGED <<latHistory, latPlan>>

\* ------------------------------------------------ configuration (config.go)

Names == {"can0", "can1", "can9"}

\* The port lists tried: one port, two ports, and a port named twice
\* (parseCanPorts keeps duplicates). "can9" is never configured.
PortLists == {<<"can0">>, <<"can0", "can1">>, <<"can1", "can1">>}

GetCanPorts == ports

ValidateInterface(ifName) == \E i \in 1..Len(ports) : ports[i] = ifName

\* ------------------------------------- sockets and the registry (interface.go)

Retries == 5
RetryDelay == 2
MaxDataLen == 8

MaxDevices == 3     \* CanInterface objects created per run
MaxTime == 45       \* seconds of wall clock explored
MaxDevSends == 2    \* sends that reach the transport, per device
MaxChecks == 2      \* monitor probes recorded per interface
MaxCalls == 3       \* operations the goroutines begin, together, in the interleaving model

\* What one createInterface attempt meets.
CreateOutcomes == {"ok", "socket", "ifindex", "bind"}

\* socket(2) hands out the lowest descriptor not in use.
LowestFreeFd(open) ==
    CHOOSE f \in 3..(3 + Cardinality(open)) :
        /\ f \notin open
        /\ \A g \in 3..(f - 1) : g \in open

NewCanInterface(name, fd) ==
    [Name |-> name, FD |-> fd, Metrics |-> NewInterfaceMetrics]

\* The registry and the sockets behind it, as one value R:
\* [interfaces, heap, openFds, now].
Reg == [interfaces |-> interfaces, heap |-> heap, openFds |-> openFds, now |-> now]

SetReg(R) ==
    /\ interfaces' = R.interfaces
    /\ heap' = R.heap
    /\ openFds' = R.openFds
    /\ now' = R.now

\* SocketProvider.Close: the descriptor is released.
Close(R, fd) == [R EXCEPT !.openFds = @ \ {fd}]

\* createInterface under one outcome: the device (0 = nil) and the sockets after.
\* A socket opened by an attempt that then fails is closed before returning.
\* A plausible slip: the socket is not closed when bind fails.
createInterfaceLeaky(R, ifName, outcome) ==
    LET fd == LowestFreeFd(R.openFds)
        opened == [R EXCEPT !.openFds = @ \cup {fd}]
    IN  CASE outcome = "socket" -> [R |-> R, canIf |-> 0]
          [] outcome = "ifindex" -> [R |-> Close(opened, fd), canIf |-> 0]
          [] outcome = "bind" -> [R |-> opened, canIf |-> 0]
          [] OTHER ->
               [R |-> [opened EXCEPT !.heap = Append(@, NewCanInterface(ifName, fd))],
                canIf |-> Len(R.heap) + 1]

createInterface(R, ifName, outcome) ==
    LET fd == LowestFreeFd(R.openFds)
        opened == [R EXCEPT !.openFds = @ \cup {fd}]
    IN  CASE outcome = "socket" -> [R |-> R, canIf |-> 0]
          [] outcome \in {"ifindex", "bind"} -> [R |-> Close(opened, fd), canIf |-> 0]
          [] OTHER ->
               [R |-> [opened EXCEPT !.heap = Append(@, NewCanInterface(ifName, fd))],
                canIf |-> Len(R.heap) + 1]

\* InitializeSingle from attempt i on; script[i] is what attempt i meets.
RECURSIVE InitializeSingleFrom(_, _, _, _)
InitializeSingleFrom(R, ifName, script, i) ==
    IF i > Retries
    THEN [R |-> R, err |-> TRUE]
    ELSE LET made == createInterface(R, ifName, script[i])
         IN  IF made.canIf # 0
             THEN [R |-> [made.R EXCEPT !.interfaces = (ifName :> made.canIf) @@ @],
                   err |-> FALSE]
             ELSE InitializeSingleFrom([made.R EXCEPT !.now = @ + RetryDelay],
                                       ifName, script, i + 1)

InitializeSingle(R, ifName, script) == InitializeSingleFrom(R, ifName, script, 1)

\* The scripts tried: attempts before the k-th fail the same way, the k-th
\* succeeds (k = 0: every attempt fails).
InitScripts ==
    {[i \in 1..Retries |-> IF i = k THEN "ok" ELSE kind] :
        k \in 0..Retries, kind \in CreateOutcomes \ {"ok"}}

ScriptSucceeds(script) == \E i \in 1..Retries : script[i] = "ok"

RECURSIVE InitializeAllStopAtFailure(_, _, _, _)
InitializeAllStopAtFailure(R, scripts, i, acc) ==
    IF i > Len(ports)
    THEN [R |-> R,
          err |-> (acc.successCount = 0),
          named |-> IF acc.successCount = 0 THEN Range(ports) ELSE {},
          attempted |-> acc.attempted]
    ELSE LET one == InitializeSingle(R, ports[i], scripts[i])
             next == [successCount |-> acc.successCount + (IF one.err THEN 0 ELSE 1),
                      attempted |-> Append(acc.attempted, ports[i])]
         IN  IF one.err
             THEN [R |-> one.R, err |-> TRUE, named |-> {ports[i]},
                   attempted |-> next.attempted]
             ELSE InitializeAllStopAtFailure(one.R, scripts, i + 1, next)

\* InitializeAll from port i on. The error it returns prints the whole port
\* list and the last failure; named is the set of names the error shows.
RECURSIVE InitializeAllFrom(_, _, _, _)
InitializeAllFrom(R, scripts, i, acc) ==
    IF i > Len(ports)
    THEN [R |-> R,
          err |-> (acc.successCount = 0),
          named |-> IF acc.successCount = 0 THEN Range(ports) ELSE {},
          attempted |-> acc.attempted]
    ELSE LET one == InitializeSingle(R, ports[i], scripts[i])
             next == [successCount |-> acc.successCount + (IF one.err THEN 0 ELSE 1),
                      attempted |-> Append(acc.attempted, ports[i])]
         IN  InitializeAllFrom(one.R, scripts, i + 1, next)

\* A plausible slip: give up at the first interface that fails.
InitializeAllFailFast(R, scripts) ==
    InitializeAllStopAtFailure(R, scripts, 1, [successCount |-> 0, attempted |-> <<>>])

InitializeAll(R, scripts) ==
    InitializeAllFrom(R, scripts, 1, [successCount |-> 0, attempted |-> <<>>])

GetInterface(R, name) ==
    IF name \in DOMAIN R.interfaces THEN R.interfaces[name] ELSE 0

GetAllInterfaces(R) == R.interfaces

\* RemoveInterface: close the device's socket and delete the entry.
RemoveInterface(R, name) ==
    IF name \notin DOMAIN R.interfaces
    THEN [R |-> R, err |-> TRUE]
    ELSE LET canIf == R.heap[R.interfaces[name]]
             closed == Close(R, canIf.FD)
         IN  [R |-> [closed EXCEPT !.interfaces =
                        [n \in (DOMAIN @) \ {name} |-> @[n]]],
              err |-> FALSE]

\* Cleanup: close every registered device's socket, then an empty map.
Cleanup(R) ==
    [R EXCEPT !.openFds = @ \ {R.heap[R.interfaces[n]].FD : n \in DOMAIN R.interfaces},
              !.interfaces = <<>>]

\* A plausible slip: Cleanup returning at a Close that fails, the map kept.
CleanupStopsAtError(R, failed) ==
    IF failed \cap DOMAIN R.interfaces = {}
    THEN [R |-> Cleanup(R),
          closes |-> [n \in DOMAIN R.interfaces |->
                        Cardinality({m \in DOMAIN R.interfaces :
                            R.heap[R.interfaces[m]].FD = R.heap[R.interfaces[n]].FD})]]
    ELSE [R |-> [R EXCEPT !.openFds = @ \ {R.heap[R.interfaces[n]].FD : n \in failed}],
          closes |-> [n \in DOMAIN R.interfaces |-> IF n \in failed THEN 1 ELSE 0]]

\* Cleanup with the Close calls it makes: one per entry of the map, in the
\* range loop, whose error (for the names in failed) is logged and nothing
\* else; then the map is replaced.  closes[n] is the number of Close calls on
\* the descriptor of n's device.  unix.Close releases the descriptor also when
\* it reports an error.
CleanupWith(R, failed) ==
    [R |-> Cleanup(R),
     closes |-> [n \in DOMAIN R.interfaces |->
                   Cardinality({m \in DOMAIN R.interfaces :
                       R.heap[R.interfaces[m]].FD = R.heap[R.interfaces[n]].FD})]]

\* CheckHealth: false for an unknown name, else the probe's SendTo result.
CheckHealth(R, ifName, sendOk) ==
    IF ifName \notin DOMAIN R.interfaces THEN FALSE ELSE sendOk

\* ------------------------------------------------------ sender (sender.go)

\* The payloads tried: empty, one byte, eight bytes, nine bytes.
SendPayloads == {<<>>, <<7>>, <<1, 2, 3, 4, 5, 6, 7, 8>>, <<1, 2, 3, 4, 5, 6, 7, 8, 9>>}

ErrInterfaceRequired == "interface name is required"
ErrEmptyData == "message data cannot be empty"

\* ValidateMessage: the error it returns.
ValidateMessage(msg) ==
    IF msg.Interface = "" THEN ErrInterfaceRequired
    ELSE IF ~ValidateInterface(msg.Interface) THEN ErrNotConfigured
    ELSE IF Len(msg.Data) = 0 THEN ErrEmptyData
    ELSE IF Len(msg.Data) > MaxDataLen THEN ErrDataTooLong
    ELSE ErrNone

\* A plausible slip: the length check is left out.
SendCanMessageCheckNoLength(R, msg) ==
    IF ~ValidateInterface(msg.Interface) THEN ErrNotConfigured
    ELSE IF GetInterface(R, msg.Interface) = 0 THEN ErrNotInitialized
    ELSE ErrNone

\* A plausible slip: the registry is consulted before the configuration.
SendCanMessageCheckRegistryFirst(R, msg) ==
    IF GetInterface(R, msg.Interface) = 0 THEN ErrNotInitialized
    ELSE IF ~ValidateInterface(msg.Interface) THEN ErrNotConfigured
    ELSE IF Len(msg.Data) > MaxDataLen THEN ErrDataTooLong
    ELSE ErrNone

\* SendCanMessage up to the call of sendMessage: the error it returns early
\* with, or ErrNone when it goes on to sendMessage.
SendCanMessageCheck(R, msg) ==
    IF ~ValidateInterface(msg.Interface) THEN ErrNotConfigured
    ELSE IF GetInterface(R, msg.Interface) = 0 THEN ErrNotInitialized
    ELSE IF Len(msg.Data) > MaxDataLen THEN ErrDataTooLong
    ELSE ErrNone

\* time.Now() as a Record call on m reads it: the clock, moved past the stamps
\* m already holds (two reads never return the same instant).
StampNow(m, t) ==
    LET latest == IF m.LastSendTime > m.LastErrorTime THEN m.LastSendTime
                  ELSE m.LastErrorTime
    IN  IF t > latest THEN t ELSE latest + 1

\* A plausible slip: a failed SendTo is tried once more before giving up.
sendMessageRetry(R, canIf, sendOk, latency) ==
    LET m == R.heap[canIf].Metrics
    IN  [R |-> [R EXCEPT !.heap[canIf].Metrics =
                    IF sendOk THEN RecordSuccess(m, latency, StampNow(m, R.now))
                    ELSE RecordError(m, ErrTransport, StampNow(m, R.now))],
         err |-> IF sendOk THEN ErrNone ELSE ErrTransport,
         sendToCalls |-> IF sendOk THEN 1 ELSE 2]

\* sendMessage: one SendTo, then the metrics of the device.
sendMessage(R, canIf, sendOk, latency) ==
    LET m == R.heap[canIf].Metrics
    IN  [R |-> [R EXCEPT !.heap[canIf].Metrics =
                    IF sendOk THEN RecordSuccess(m, latency, StampNow(m, R.now))
                    ELSE RecordError(m, ErrTransport, StampNow(m, R.now))],
         err |-> IF sendOk THEN ErrNone ELSE ErrTransport,
         sendToCalls |-> 1]

SendCanMessage(R, msg, sendOk, latency) ==
    LET early == SendCanMessageCheck(R, msg)
    IN  IF early # ErrNone
        THEN [R |-> R, err |-> early, sendToCalls |-> 0]
        ELSE sendMessage(R, GetInterface(R, msg.Interface), sendOk, latency)

\* --------------------------------------------------- watchdog (watchdog.go)

CheckInterval == 10
ErrorThreshold == 30
MaxRecoveryAttempts == 3

DefaultWatchdogConfig ==
    [RecoveryEnabled |-> TRUE, MaxRecoveryAttempts |-> MaxRecoveryAttempts]

\* A plausible slip: the staleness threshold is not consulted.
shouldCheckInterfaceNoStaleness(canIf, t) ==
    LET stats == canIf.Metrics
    IN  ~ \/ stats.LastErrorTime = 0
          \/ stats.LastSendTime > stats.LastErrorTime

shouldCheckInterface(canIf, t) ==
    LET stats == canIf.Metrics
    IN  ~ \/ stats.LastErrorTime = 0
          \/ stats.LastSendTime > stats.LastErrorTime
          \/ t - stats.LastErrorTime >= ErrorThreshold

getRecoveryAttempts(ra, ifName) ==
    IF ifName \in DOMAIN ra THEN ra[ifName] ELSE 0

incrementRecoveryAttempts(ra, ifName) ==
    (ifName :> getRecoveryAttempts(ra, ifName) + 1) @@ ra

\* A plausible slip: the counter is kept on a reset.
resetRecoveryAttemptsKeeps(ra, ifName) == ra

resetRecoveryAttempts(ra, ifName) ==
    [n \in (DOMAIN ra) \ {ifName} |-> ra[n]]

\* recoverInterface: remove (an error is only logged), then reinitialize.
recoverInterface(R, ifName, script) ==
    InitializeSingle(RemoveInterface(R, ifName).R, ifName, script)

\* A plausible slip: the ceiling is not consulted.
handleUnhealthyInterfaceNoCeiling(R, ra, ifName, script) ==
    IF ~wdConfig.RecoveryEnabled
    THEN [R |-> R, ra |-> ra, reinit |-> FALSE, recovered |-> FALSE]
    ELSE LET rec == recoverInterface(R, ifName, script)
         IN  [R |-> rec.R,
              ra |-> IF rec.err THEN incrementRecoveryAttempts(ra, ifName)
                     ELSE resetRecoveryAttempts(ra, ifName),
              reinit |-> TRUE,
              recovered |-> ~rec.err]

\* A plausible slip: RecoveryEnabled is not consulted.
handleUnhealthyInterfaceAlways(R, ra, ifName, script) ==
    IF getRecoveryAttempts(ra, ifName) >= wdConfig.MaxRecoveryAttempts
    THEN [R |-> R, ra |-> ra, reinit |-> FALSE, recovered |-> FALSE]
    ELSE LET rec == recoverInterface(R, ifName, script)
         IN  [R |-> rec.R,
              ra |-> IF rec.err THEN incrementRecoveryAttempts(ra, ifName)
                     ELSE resetRecoveryAttempts(ra, ifName),
              reinit |-> TRUE,
              recovered |-> ~rec.err]

\* handleUnhealthyInterface: the registry and the counters after it.
handleUnhealthyInterface(R, ra, ifName, script) ==
    IF ~wdConfig.RecoveryEnabled
    THEN [R |-> R, ra |-> ra, reinit |-> FALSE, recovered |-> FALSE]
    ELSE IF getRecoveryAttempts(ra, ifName) >= wdConfig.MaxRecoveryAttempts
    THEN [R |-> R, ra |-> ra, reinit |-> FALSE, recovered |-> FALSE]
    ELSE LET rec == recoverInterface(R, ifName, script)
         IN  [R |-> rec.R,
              ra |-> IF rec.err THEN incrementRecoveryAttempts(ra, ifName)
                     ELSE resetRecoveryAttempts(ra, ifName),
              reinit |-> TRUE,
              recovered |-> ~rec.err]

\* --------------------------------------------------- monitor (monitor.go)

NewHealthTracker == [ChecksPassed |-> 0, ChecksFailed |-> 0]

\* A plausible slip: the thresholds are compared strictly.
determineHealthStatusStrict(tracker) ==
    LET total == tracker.ChecksPassed + tracker.ChecksFailed
    IN  IF total = 0 THEN "unknown"
        ELSE IF tracker.ChecksPassed * 100 > 95 * total THEN "healthy"
        ELSE IF tracker.ChecksPassed * 100 > 80 * total THEN "warning"
        ELSE "critical"

\* determineHealthStatus: successRate = float64(passed) / float64(total) is
\* compared with 0.95 and 0.80.  The quotient is correctly rounded and the
\* literals are the doubles nearest 0.95 and 0.80, so for counters far below
\* 2^50 the comparisons agree with the exact ones on integers written here.
determineHealthStatus(tracker) ==
    LET total == tracker.ChecksPassed + tracker.ChecksFailed
    IN  IF total = 0 THEN "unknown"
        ELSE IF tracker.ChecksPassed * 100 >= 95 * total THEN "healthy"
        ELSE IF tracker.ChecksPassed * 100 >= 80 * total THEN "warning"
        ELSE "critical"

\* checkInterfaceHealth: the tracker of ifName after one more probe.
checkInterfaceHealth(hc, ifName, isHealthy) ==
    LET tracker == IF ifName \in DOMAIN hc THEN hc[ifName] ELSE NewHealthTracker
    IN  IF isHealthy
        THEN [tracker EXCEPT !.ChecksPassed = @ + 1]
        ELSE [tracker EXCEPT !.ChecksFailed = @ + 1]

\* A plausible slip: names that are configured but not registered are left out.
getInterfaceStatusesActiveOnly(R, hc, probe) ==
    [name \in DOMAIN GetAllInterfaces(R) |->
        [Active |-> TRUE,
         Health |-> determineHealthStatus(
                        checkInterfaceHealth(hc, name, CheckHealth(R, name, probe[name])))]]

\* getInterfaceStatuses: one entry per registered name, then one per
\* configured name that has none yet.
getInterfaceStatuses(R, hc, probe) ==
    LET active == [name \in DOMAIN GetAllInterfaces(R) |->
                      [Active |-> TRUE,
                       Health |-> determineHealthStatus(
                           checkInterfaceHealth(hc, name,
                                                CheckHealth(R, name, probe[name])))]]
        inactive == [port \in Range(GetCanPorts) \ DOMAIN active |->
                        [Active |-> FALSE, Health |-> "critical"]]
    IN  active @@ inactive

\* The trackers after getInterfaceStatuses.
healthChecksAfter(R, hc, probe) ==
    [name \in DOMAIN hc \cup DOMAIN GetAllInterfaces(R) |->
        IF name \in DOMAIN GetAllInterfaces(R)
        THEN checkInterfaceHealth(hc, name, CheckHealth(R, name, probe[name]))
        ELSE hc[name]]


\* ------------------------------------- the frame codec (types.go, sender.go)

ByteOrders == {"little", "big"}

\* A uint32 is written as its two 16-bit halves [hi, lo]: hi * 65536 + lo.
Uint32(hi, lo) == [hi |-> hi, lo |-> lo]

\* The four bytes of a uint32 in memory, in the host's byte order.
Uint32Bytes(order, v) ==
    LET le == <<v.lo % 256, v.lo \div 256, v.hi % 256, v.hi \div 256>>
    IN  IF order = "little" THEN le ELSE <<le[4], le[3], le[2], le[1]>>

\* The uint32 that four bytes of memory hold, in the host's byte order.
Uint32Of(order, b) ==
    IF order = "little"
    THEN Uint32(b[3] + 256 * b[4], b[1] + 256 * b[2])
    ELSE Uint32(b[2] + 256 * b[1], b[4] + 256 * b[3])

\* sendMessage builds the CanFrame: Length is uint8(len(Data)), the loop copies
\* at most 8 bytes, the rest of the zero-valued struct stays zero.
NewCanFrame(id, data) ==
    [ID |-> id,
     Length |-> Len(data) % 256,
     Pad |-> <<0, 0, 0>>,
     Data |-> [i \in 1..MaxDataLen |-> IF i <= Len(data) THEN data[i] ELSE 0]]

\* CheckHealth's probe frame: ID 0, Length 1, Data all zero.
ProbeFrame ==
    [ID |-> Uint32(0, 0), Length |-> 1, Pad |-> <<0, 0, 0>>,
     Data |-> [i \in 1..MaxDataLen |-> 0]]

\* A plausible slip: the struct is laid out without its three padding bytes.
FrameBytesPacked(order, frame) ==
    Uint32Bytes(order, frame.ID) \o <<frame.Length>> \o frame.Data \o frame.Pad

\* (*[16]byte)(unsafe.Pointer(&frame)): the 16 bytes of the struct in memory.
FrameBytes(order, frame) ==
    Uint32Bytes(order, frame.ID) \o <<frame.Length>> \o frame.Pad \o frame.Data

\* A plausible slip: the capture loop logs all eight payload bytes.
DecodeFrameWholePayload(order, bytes) ==
    [valid |-> TRUE, ID |-> Uint32Of(order, SubSeq(bytes, 1, 4)), Length |-> bytes[5],
     Data |-> SubSeq(bytes, 9, 16)]

\* listenOnInterface: the buffer read is viewed as a CanFrame and the first
\* Length payload bytes are copied into the log entry.
DecodeFrame(order, bytes) ==
    [valid |-> TRUE, ID |-> Uint32Of(order, SubSeq(bytes, 1, 4)), Length |-> bytes[5],
     Data |-> SubSeq(bytes, 9, 8 + bytes[5])]

\* The identifiers (0, 1, 0x123, 0x01020304, 0xFFFFFFFF) and payloads tried:
\* every length 0..8, bytes all zero, all
\* 255 and all different.
CodecIds ==
    {Uint32(0, 0), Uint32(0, 1), Uint32(0, 291), Uint32(258, 772), Uint32(65535, 65535)}

CodecPayloads ==
    {[i \in 1..len |-> CASE fill = "zero" -> 0 [] fill = "ones" -> 255 [] OTHER -> 16 * i + 1] :
        len \in 0..MaxDataLen, fill \in {"zero", "ones", "ramp"}}

NoWire == [kind |-> "none", bytes |-> <<>>]

NoRx == [valid |-> FALSE, ID |-> Uint32(0, 0), Length |-> 0, Data |-> <<>>]

CodecIdle ==
    /\ hostOrder = "little"
    /\ txFrame = [ID |-> Uint32(0, 0), Data |-> <<>>]
    /\ wire = NoWire
    /\ rxFrame = NoRx

CodecInit ==
    /\ hostOrder \in ByteOrders
    /\ txFrame \in [ID : CodecIds, Data : CodecPayloads]
    /\ wire = NoWire
    /\ rxFrame = NoRx

\* sendMessage hands the frame's bytes to SendTo.
CodecSend ==
    /\ wire = NoWire
    /\ wire' = [kind |-> "send", bytes |-> FrameBytes(hostOrder, NewCanFrame(txFrame.ID, txFrame.Data))]
    /\ UNCHANGED <<hostOrder, txFrame, rxFrame, lastRecent>>

\* CheckHealth hands the probe frame's bytes to SendTo.
CodecProbe ==
    /\ wire = NoWire
    /\ wire' = [kind |-> "probe", bytes |-> FrameBytes(hostOrder, ProbeFrame)]
    /\ UNCHANGED <<hostOrder, txFrame, rxFrame, lastRecent>>

\* A capture loop on the same host reads the 16 bytes and logs the message.
CodecCapture ==
    /\ wire # NoWire
    /\ ~rxFrame.valid
    /\ Len(wire.bytes) >= 16
    /\ rxFrame' = DecodeFrame(hostOrder, wire.bytes)
    /\ UNCHANGED <<hostOrder, txFrame, wire, lastRecent>>

\* --------------------------------------- locks held across socket calls

MaxLockCalls == 3      \* calls and loop iterations begun per run

LkThreads == {"start", "stop", "send", "loop"}

\* CanMessageListener.buffersMutex, InterfaceMessageBuffer.mutex and
\* CanInterface.mutex.
Locks == {"buffersMutex", "bufferMutex", "deviceMutex"}

NoIo == [valid |-> FALSE, op |-> "none", by |-> "", locks |-> {}, nth |-> 0]

LockIdle ==
    /\ lkPc = [t \in LkThreads |-> [at |-> "idle", ios |-> 0]]
    /\ lkHeld = [l \in Locks |-> "free"]
    /\ lkListening = FALSE
    /\ lkCalls = 0
    /\ lastIo = NoIo

LockInit == LockIdle

LocksOf(t) == {l \in Locks : lkHeld[l] = t}

\* The goroutine moves on without touching a socket.
LkGoto(t, at) ==
    /\ lkPc' = [lkPc EXCEPT ![t].at = at]
    /\ UNCHANGED lastIo

\* The goroutine performs a socket operation and moves on.
LkSocketOp(t, op, at) ==
    /\ lkPc' = [lkPc EXCEPT ![t] = [at |-> at, ios |-> @.ios + 1]]
    /\ lastIo' = [valid |-> TRUE, op |-> op, by |-> t, locks |-> LocksOf(t),
                  nth |-> lkPc[t].ios + 1]

LkLock(t, l, at) ==
    /\ lkHeld[l] = "free"
    /\ lkHeld' = [lkHeld EXCEPT ![l] = t]
    /\ lkPc' = [lkPc EXCEPT ![t] = [at |-> at, ios |-> 0]]
    /\ UNCHANGED lastIo

LkUnlock(l) == lkHeld' = [lkHeld EXCEPT ![l] = "free"]

\* StartListening, statement by statement: buffersMutex is taken on entry and
\* released by the deferred Unlock when the function returns.
StartListeningStep ==
    LET t == "start"
        at == lkPc[t].at
    IN  \/ /\ at = "idle" /\ lkCalls < MaxLockCalls
           /\ LkLock(t, "buffersMutex", "check")
           /\ lkCalls' = lkCalls + 1
           /\ UNCHANGED lkListening
        \/ /\ at = "check"
           /\ IF lkListening
              THEN LkGoto(t, "idle") /\ LkUnlock("buffersMutex")
              ELSE LkGoto(t, "socket") /\ UNCHANGED lkHeld
           /\ UNCHANGED <<lkListening, lkCalls>>
        \/ /\ at = "socket"
           /\ \E ok \in BOOLEAN :
                IF ok THEN LkSocketOp(t, "create", "ifindex") /\ UNCHANGED lkHeld
                      ELSE LkSocketOp(t, "create", "idle") /\ LkUnlock("buffersMutex")
           /\ UNCHANGED <<lkListening, lkCalls>>
        \/ /\ at = "ifindex"
           /\ \E ok \in BOOLEAN :
                LkSocketOp(t, "ifindex", IF ok THEN "bind" ELSE "close")
           /\ UNCHANGED <<lkHeld, lkListening, lkCalls>>
        \/ /\ at = "bind"
           /\ \E ok \in BOOLEAN :
                IF ok THEN /\ LkSocketOp(t, "bind", "idle")
                           /\ LkUnlock("buffersMutex")
                           /\ lkListening' = TRUE
                      ELSE /\ LkSocketOp(t, "bind", "close")
                           /\ UNCHANGED <<lkHeld, lkListening>>
           /\ UNCHANGED lkCalls
        \/ /\ at = "close"
           /\ LkSocketOp(t, "close", "idle")
           /\ LkUnlock("buffersMutex")
           /\ UNCHANGED <<lkListening, lkCalls>>

\* StopListening, statement by statement.
StopListeningStep ==
    LET t == "stop"
        at == lkPc[t].at
    IN  \/ /\ at = "idle" /\ lkCalls < MaxLockCalls
           /\ LkLock(t, "buffersMutex", "check")
           /\ lkCalls' = lkCalls + 1
           /\ UNCHANGED lkListening
        \/ /\ at = "check"
           /\ IF lkListening
              THEN LkGoto(t, "close") /\ UNCHANGED lkHeld
              ELSE LkGoto(t, "idle") /\ LkUnlock("buffersMutex")
           /\ UNCHANGED <<lkListening, lkCalls>>
        \/ /\ at = "close"
           /\ LkSocketOp(t, "close", "idle")
           /\ LkUnlock("buffersMutex")
           /\ lkListening' = FALSE
           /\ UNCHANGED lkCalls

\* sendMessage: Lock, SendTo, RecordSuccess or RecordError, deferred Unlock.
SendMessageStep ==
    LET t == "send"
        at == lkPc[t].at
    IN  \/ /\ at = "idle" /\ lkCalls < MaxLockCalls
           /\ LkLock(t, "deviceMutex", "sendto")
           /\ lkCalls' = lkCalls + 1
           /\ UNCHANGED lkListening
        \/ /\ at = "sendto"
           /\ LkSocketOp(t, "send", "record")
           /\ UNCHANGED <<lkHeld, lkListening, lkCalls>>
        \/ /\ at = "record"
           /\ LkGoto(t, "idle")
           /\ LkUnlock("deviceMutex")
           /\ UNCHANGED <<lkListening, lkCalls>>

\* listenOnInterface, one iteration: Read, then AddMessage under the buffer's
\* mutex when a frame came.
ListenLoopStep ==
    LET t == "loop"
        at == lkPc[t].at
    IN  \/ /\ at = "idle" /\ lkCalls < MaxLockCalls /\ lkListening
           /\ \E frame \in BOOLEAN :
                LkSocketOp(t, "read", IF frame THEN "add" ELSE "idle")
           /\ lkCalls' = lkCalls + 1
           /\ UNCHANGED <<lkHeld, lkListening>>
        \/ /\ at = "add"
           /\ LkLock(t, "bufferMutex", "adding")
           /\ UNCHANGED <<lkListening, lkCalls>>
        \/ /\ at = "adding"
           /\ LkGoto(t, "idle")
           /\ LkUnlock("bufferMutex")
           /\ UNCHANGED <<lkListening, lkCalls>>

\* ------------------------- Monitor.checkInterfaceHealth, step by step

MaxQueries == 3        \* status queries begun per run

Queries == {"q1", "q2"}

NoQuery == [at |-> "idle", tracker |-> 0, healthy |-> FALSE, seen |-> 0]

\* A Monitor that has answered no status query yet; one interface, can0, is
\* registered.
QueryIdle ==
    /\ qs = [healthChecks |-> 0, trackers |-> <<>>, probes |-> 0, begun |-> 0]
    /\ qPc = [q \in Queries |-> NoQuery]

QueryInit == QueryIdle

\* The checks recorded in the tracker the Monitor's map holds for can0.
ChecksRecorded ==
    IF qs.healthChecks = 0 THEN 0
    ELSE qs.trackers[qs.healthChecks].ChecksPassed + qs.trackers[qs.healthChecks].ChecksFailed

\* One status query on the HTTP goroutine q, statement by statement of
\* checkInterfaceHealth for can0.  Monitor takes no lock: the map and the
\* trackers' counters are read and written by every query that is running.
CheckInterfaceHealthStep(q) ==
    LET me == qPc[q]
    IN  \/ /\ me.at \in {"idle", "done"} /\ qs.begun < MaxQueries
           /\ qPc' = [qPc EXCEPT ![q] = [NoQuery EXCEPT !.at = "lookup"]]
           /\ qs' = [qs EXCEPT !.begun = @ + 1]
        \/ /\ me.at = "lookup"
           /\ qPc' = [qPc EXCEPT ![q] = IF qs.healthChecks # 0
                                        THEN [me EXCEPT !.at = "probe", !.tracker = qs.healthChecks]
                                        ELSE [me EXCEPT !.at = "create"]]
           /\ UNCHANGED qs
        \/ /\ me.at = "create"
           /\ qs' = [qs EXCEPT !.trackers = Append(@, NewHealthTracker),
                               !.healthChecks = Len(qs.trackers) + 1]
           /\ qPc' = [qPc EXCEPT ![q] = [me EXCEPT !.at = "probe",
                                                   !.tracker = Len(qs.trackers) + 1]]
        \/ /\ me.at = "probe"
           /\ \E isHealthy \in BOOLEAN :
                qPc' = [qPc EXCEPT ![q] = [me EXCEPT !.at = "load", !.healthy = isHealthy]]
           /\ qs' = [qs EXCEPT !.probes = @ + 1]
        \/ /\ me.at = "load"
           /\ qPc' = [qPc EXCEPT ![q] =
                        [me EXCEPT !.at = "store",
                                   !.seen = IF me.healthy
                                            THEN qs.trackers[me.tracker].ChecksPassed
                                            ELSE qs.trackers[me.tracker].ChecksFailed]]
           /\ UNCHANGED qs
        \/ /\ me.at = "store"
           /\ qs' = IF me.healthy
                    THEN [qs EXCEPT !.trackers[me.tracker].ChecksPassed = me.seen + 1]
                    ELSE [qs EXCEPT !.trackers[me.tracker].ChecksFailed = me.seen + 1]
           /\ qPc' = [qPc EXCEPT ![q] = [me EXCEPT !.at = "done"]]

\* ------------------------------ InterfaceSetupManager's configuration

MaxSetupCalls == 3     \* setup and configuration requests begun per run

SetupRequests == {"r1", "r2"}

DefaultInterfaceSetupConfig ==
    [Bitrate |-> 1000000, SamplePoint |-> "0.75", RestartMs |-> 100, AutoRecovery |-> TRUE,
     TimeoutSeconds |-> 10, RetryAttempts |-> 3]

\* strconv.ParseFloat on the sample points tried: whether it fails, and the
\* value in thousandths.
ParseFloat(str) ==
    CASE str = "0.75" -> [err |-> FALSE, milli |-> 750]
      [] str = "0.875" -> [err |-> FALSE, milli |-> 875]
      [] str = "0" -> [err |-> FALSE, milli |-> 0]
      [] str = "1.5" -> [err |-> FALSE, milli |-> 1500]
      [] OTHER -> [err |-> TRUE, milli |-> 0]

ErrBitrate == "bitrate must be positive"
ErrTimeout == "timeout must be positive"
ErrRetryAttempts == "retry attempts must be positive"
ErrSamplePoint == "sample point must be between 0 and 1"

\* ValidateSetupConfig on a configuration: the error it returns.
ValidateSetupConfig(config) ==
    IF config.Bitrate <= 0 THEN ErrBitrate
    ELSE IF config.TimeoutSeconds <= 0 THEN ErrTimeout
    ELSE IF config.RetryAttempts <= 0 THEN ErrRetryAttempts
    ELSE IF config.SamplePoint # ""
            /\ (ParseFloat(config.SamplePoint).err
                \/ ParseFloat(config.SamplePoint).milli <= 0
                \/ ParseFloat(config.SamplePoint).milli >= 1000)
    THEN ErrSamplePoint
    ELSE ErrNone

\* UpdateSetupConfig: the configuration is stored, then validated.
UpdateSetupConfig(stored, config) ==
    [config |-> config, err |-> ValidateSetupConfig(config)]

\* The fields a request body may carry, one at a time.
ConfigChanges ==
    [field : {"Bitrate"}, value : {500000, 0}]
    \cup [field : {"SamplePoint"}, value : {"1.5", "abc"}]
    \cup [field : {"TimeoutSeconds"}, value : {0}]
    \cup [field : {"RetryAttempts"}, value : {0}]

\* The fields a single-interface setup request may carry.
SetupOverrides ==
    {ch \in ConfigChanges : ch.field \in {"Bitrate", "SamplePoint"}}
    \cup [field : {"RestartMs"}, value : {200}]

ApplyChange(config, ch) ==
    CASE ch.field = "Bitrate" -> [config EXCEPT !.Bitrate = ch.value]
      [] ch.field = "SamplePoint" -> [config EXCEPT !.SamplePoint = ch.value]
      [] ch.field = "RestartMs" -> [config EXCEPT !.RestartMs = ch.value]
      [] ch.field = "TimeoutSeconds" -> [config EXCEPT !.TimeoutSeconds = ch.value]
      [] OTHER -> [config EXCEPT !.RetryAttempts = ch.value]

NoSetupRequest ==
    [at |-> "idle", custom |-> FALSE, originalConfig |-> DefaultInterfaceSetupConfig,
     tempConfig |-> DefaultInterfaceSetupConfig]

NoSetup ==
    [valid |-> FALSE, config |-> DefaultInterfaceSetupConfig, err |-> ErrNone,
     before |-> DefaultInterfaceSetupConfig, after |-> DefaultInterfaceSetupConfig]

SetupIdle ==
    /\ setupConfig = DefaultInterfaceSetupConfig
    /\ suPc = [r \in SetupRequests |-> NoSetupRequest]
    /\ suCalls = 0
    /\ lastSetup = NoSetup

SetupInit == SetupIdle

\* handleUpdateSetupConfig: the stored configuration with the request's field
\* replaced is handed to UpdateSetupConfig.
HandleUpdateSetupConfig ==
    /\ suCalls < MaxSetupCalls
    /\ suCalls' = suCalls + 1
    /\ \E ch \in ConfigChanges :
         LET config == ApplyChange(setupConfig, ch)
             res == UpdateSetupConfig(setupConfig, config)
         IN  /\ setupConfig' = res.config
             /\ lastSetup' = [valid |-> TRUE, config |-> config, err |-> res.err,
                              before |-> setupConfig, after |-> res.config]
    /\ UNCHANGED suPc

\* handleSetupInterface on the HTTP goroutine r, statement by statement: the
\* configuration is read, overridden when the request carries parameters, the
\* interface is set up, and the deferred call stores the configuration that
\* was read.
HandleSetupInterfaceStep(r) ==
    LET me == suPc[r]
    IN  \/ /\ me.at \in {"idle", "done"} /\ suCalls < MaxSetupCalls
           /\ suCalls' = suCalls + 1
           /\ \E custom \in BOOLEAN, ch \in SetupOverrides :
                suPc' = [suPc EXCEPT ![r] =
                           [at |-> IF custom THEN "override" ELSE "setup",
                            custom |-> custom,
                            originalConfig |-> setupConfig,
                            tempConfig |-> IF custom THEN ApplyChange(setupConfig, ch)
                                           ELSE setupConfig]]
           /\ UNCHANGED <<setupConfig, lastSetup>>
        \/ /\ me.at = "override"
           /\ setupConfig' = UpdateSetupConfig(setupConfig, me.tempConfig).config
           /\ suPc' = [suPc EXCEPT ![r].at = "setup"]
           /\ UNCHANGED <<suCalls, lastSetup>>
        \/ /\ me.at = "setup"
           /\ suPc' = [suPc EXCEPT ![r].at = IF me.custom THEN "restore" ELSE "done"]
           /\ UNCHANGED <<setupConfig, suCalls, lastSetup>>
        \/ /\ me.at = "restore"
           /\ setupConfig' = UpdateSetupConfig(setupConfig, me.originalConfig).config
           /\ suPc' = [suPc EXCEPT ![r].at = "done"]
           /\ UNCHANGED <<suCalls, lastSetup>>

LateIdle == LockIdle /\ QueryIdle /\ SetupIdle

\* ------------------------------------------- the service, handler by handler

SeqLatencies == {2}

\* Every order in which a range over a map with key set S may visit it.
SeqsOf(S) == {s \in [1..Cardinality(S) -> S] : Range(s) = S}

\* Objects no longer reachable from roots are collected.
Collected == NewCanInterface("", 0)

Collect(R, roots) ==
    [R EXCEPT !.heap = [i \in DOMAIN @ |-> IF i \in roots THEN @[i] ELSE Collected]]

NoSend ==
    [valid |-> FALSE, msg |-> [Interface |-> "can0", Data |-> <<>>],
     configured |-> FALSE, registered |-> FALSE, err |-> ErrNone, sendToCalls |-> 0,
     canIf |-> 0, sendOk |-> FALSE, latency |-> 0, before |-> <<>>, after |-> <<>>]

NoStatus == [valid |-> FALSE, registered |-> {}, statuses |-> <<>>]

NoInitAll == [err |-> FALSE, named |-> {}, attempted |-> <<>>, succeeded |-> {}]

SysInit ==
    /\ ports \in PortLists
    /\ interfaces = <<>>
    /\ heap = <<>>
    /\ openFds = {}
    /\ now = 1
    /\ phase = "boot"
    /\ wdConfig \in {[DefaultWatchdogConfig EXCEPT !.RecoveryEnabled = b] : b \in BOOLEAN}
    /\ recoveryAttempts = <<>>
    /\ wdSnap = <<>>
    /\ wdPending = <<>>
    /\ suspectTicks = [n \in Names |-> 0]
    /\ healthChecks = <<>>
    /\ initAll = NoInitAll
    /\ lastSend = NoSend
    /\ lastStatus = NoStatus

\* Service.Initialize: InitializeAll on the registry just constructed, every
\* InitializeSingle meeting one of the scripts of scriptSet.
BootWith(scriptSet) ==
    /\ phase = "boot"
    /\ \E scripts \in [1..Len(ports) -> scriptSet] :
         LET res == InitializeAll(Reg, scripts)
         IN  /\ SetReg(res.R)
             /\ initAll' = [err |-> res.err, named |-> res.named,
                            attempted |-> res.attempted,
                            succeeded |-> {ports[i] : i \in
                                {j \in 1..Len(ports) : ScriptSucceeds(scripts[j])}}]
    /\ phase' = "ready"
    /\ UNCHANGED <<ports, wdVars, monVars, lastSend, lastStatus>>

\* Service.Start: the watchdog and the HTTP server begin.
StartService ==
    /\ phase = "ready"
    /\ phase' = "serving"
    /\ UNCHANGED <<ports, interfaces, heap, openFds, now, wdVars, monVars, outVars>>

\* POST /api/can: one SendCanMessage call, for a name of nameSet and a payload
\* of payloadSet; observed says whether the caller's view is recorded.
SendWith(nameSet, payloadSet, observed) ==
    /\ phase = "serving"
    /\ \E name \in nameSet, data \in payloadSet, sendOk \in BOOLEAN, latency \in SeqLatencies :
         LET msg == [Interface |-> name, Data |-> data]
             res == SendCanMessage(Reg, msg, sendOk, latency)
             canIf == GetInterface(Reg, name)
         IN  /\ res.sendToCalls > 0 =>
                   heap[canIf].Metrics.TotalSent + heap[canIf].Metrics.TotalErrors < MaxDevSends
             /\ SetReg(res.R)
             /\ lastSend' = IF observed
                            THEN [valid |-> TRUE, msg |-> msg,
                                  configured |-> ValidateInterface(name),
                                  registered |-> name \in DOMAIN interfaces,
                                  err |-> res.err, sendToCalls |-> res.sendToCalls,
                                  canIf |-> canIf, sendOk |-> sendOk, latency |-> latency,
                                  before |-> [d \in DOMAIN heap |-> heap[d].Metrics],
                                  after |-> [d \in DOMAIN heap |-> res.R.heap[d].Metrics]]
                            ELSE lastSend
    /\ UNCHANGED <<ports, phase, wdVars, monVars, initAll, lastStatus>>

\* The ghost tick counter when a tick completes.
TickCompleted(st) ==
    [n \in Names |-> IF st[n] = -1 THEN 1
                     ELSE IF st[n] = 0 THEN 0
                     ELSE Min(st[n] + 1, MaxRecoveryAttempts)]

\* monitorLoop, case <-ticker.C: checkInterfaces takes its copy of the map.
TickBegin ==
    /\ phase = "serving"
    /\ wdPending = <<>>
    /\ now + CheckInterval <= MaxTime
    /\ now' = now + CheckInterval
    /\ wdSnap' = GetAllInterfaces(Reg)
    /\ \E order \in SeqsOf(DOMAIN interfaces) : wdPending' = order
    /\ suspectTicks' = IF DOMAIN interfaces = {} THEN TickCompleted(suspectTicks)
                       ELSE suspectTicks
    /\ UNCHANGED <<ports, interfaces, heap, openFds, phase, wdConfig, recoveryAttempts,
                   monVars, outVars>>

\* checkInterfaces: the loop body for the next name of the copy; the probe's
\* SendTo succeeds or not (sendOk) and a recovery meets the given script.
WdCheckStep(sendOk, script) ==
    /\ phase = "serving"
    /\ wdPending # <<>>
    /\ LET ifName == Head(wdPending)
           canIf == heap[wdSnap[ifName]]
           last == Len(wdPending) = 1
           Done(st) == IF last THEN TickCompleted(st) ELSE st
           live(R) == {R.interfaces[n] : n \in DOMAIN R.interfaces}
                         \cup {wdSnap[n] : n \in Range(Tail(wdPending))}
       IN  IF ~shouldCheckInterface(canIf, now)
           THEN /\ suspectTicks' = Done(suspectTicks)
                /\ UNCHANGED <<interfaces, heap, openFds, now, recoveryAttempts>>
           ELSE   IF CheckHealth(Reg, ifName, sendOk)
                  THEN /\ recoveryAttempts' = resetRecoveryAttempts(recoveryAttempts, ifName)
                       /\ suspectTicks' = Done([suspectTicks EXCEPT ![ifName] = 0])
                       /\ UNCHANGED <<interfaces, heap, openFds, now>>
                  ELSE LET h == handleUnhealthyInterface(Reg, recoveryAttempts, ifName, script)
                       IN  /\ Len(h.R.heap) <= MaxDevices
                           /\ h.R.now <= MaxTime
                           /\ SetReg(Collect(h.R, live(h.R)))
                           /\ recoveryAttempts' = h.ra
                           /\ suspectTicks' = Done([suspectTicks EXCEPT ![ifName] =
                                  IF h.recovered THEN 0 ELSE IF @ = 0 THEN -1 ELSE @])
    /\ wdPending' = Tail(wdPending)
    /\ UNCHANGED <<ports, phase, wdConfig, wdSnap, monVars, outVars>>

\* checkInterfaces: the loop body, a recovery meeting one of the scripts of
\* scriptSet.
WdCheckWith(scriptSet) ==
    \E sendOk \in BOOLEAN, script \in scriptSet : WdCheckStep(sendOk, script)

\* The scripts of a later initialization: it initialization succeeds at
\* once or fails all its attempts.
QuickScripts ==
    {script \in InitScripts : script[1] = "ok" \/ (~ScriptSucceeds(script) /\ script[1] = "bind")}

\* InterfaceManager.InitializeSingle called by a client of the registry for any
\* name (the method takes any name; it does not consult the configuration).
Register ==
    /\ phase = "serving"
    /\ \E name \in Names \ DOMAIN interfaces,
          script \in {sc \in InitScripts : sc[1] = "ok"} :
         LET one == InitializeSingle(Reg, name, script)
         IN  /\ Len(one.R.heap) <= MaxDevices
             /\ one.R.now <= MaxTime
             /\ SetReg(one.R)
    /\ UNCHANGED <<ports, phase, wdVars, monVars, outVars>>

\* GET /api/status: Monitor.getInterfaceStatuses.
StatusQueryUpTo(maxChecks) ==
    /\ phase = "serving"
    /\ \A n \in DOMAIN interfaces :
         n \in DOMAIN healthChecks =>
            healthChecks[n].ChecksPassed + healthChecks[n].ChecksFailed < maxChecks
    /\ \E probe \in [DOMAIN interfaces -> BOOLEAN] :
         /\ lastStatus' = [valid |-> TRUE, registered |-> DOMAIN interfaces,
                           statuses |-> getInterfaceStatuses(Reg, healthChecks, probe)]
         /\ healthChecks' = healthChecksAfter(Reg, healthChecks, probe)
    /\ UNCHANGED <<regVars, wdVars, initAll, lastSend>>

StatusQuery == StatusQueryUpTo(MaxChecks)

MaxHealthChecks == 20  \* probes per interface in the run that classifies health

\* Service.Stop: the watchdog loop has ended, then Cleanup.
StopService ==
    /\ phase = "serving"
    /\ wdPending = <<>>
    /\ SetReg(Cleanup(Reg))
    /\ phase' = "stopped"
    /\ UNCHANGED <<ports, wdVars, monVars, outVars>>

\* --------------------------------- the registry under its clients' calls

MaxRegTime == 11     \* the clock up to which the registry's clients call it
MaxRegDevices == 2   \* devices the registry's clients create per run

NoInit ==
    [valid |-> FALSE, name |-> "", script |-> <<>>, err |-> FALSE,
     before |-> [interfaces |-> <<>>, heap |-> <<>>, openFds |-> {}, now |-> 0],
     after |-> [interfaces |-> <<>>, heap |-> <<>>, openFds |-> {}, now |-> 0]]

NoWdCheck ==
    [valid |-> FALSE, name |-> "", at |-> 0, stats |-> NewInterfaceMetrics,
     should |-> FALSE, probed |-> FALSE, healthy |-> FALSE,
     reinit |-> FALSE, recovered |-> FALSE,
     before |-> [interfaces |-> <<>>, openFds |-> {}],
     after |-> [interfaces |-> <<>>, openFds |-> {}],
     raBefore |-> <<>>, raAfter |-> <<>>]

NoCleanup ==
    [valid |-> FALSE, registered |-> {}, failed |-> {}, closes |-> <<>>,
     after |-> [interfaces |-> <<>>, openFds |-> {}]]

ObsIdle == lastInit = NoInit /\ lastWdCheck = NoWdCheck /\ lastCleanup = NoCleanup

\* InitializeAll on the registry as it is, each port meeting some script.
RegInitializeAll ==
    /\ Len(heap) + Len(ports) <= MaxRegDevices
    /\ \E scripts \in [1..Len(ports) -> QuickScripts] :
         LET res == InitializeAll(Reg, scripts)
         IN  /\ res.R.now <= MaxRegTime
             /\ SetReg(res.R)
    /\ lastCleanup' = NoCleanup
    /\ UNCHANGED <<ports, phase, wdVars, monVars, outVars, lastInit, lastWdCheck>>

\* InitializeSingle(ifName) for any name, registered or not, under any script.
RegInitializeSingle ==
    /\ Len(heap) < MaxRegDevices
    /\ \E name \in Names, script \in InitScripts :
         LET res == InitializeSingle(Reg, name, script)
         IN  /\ res.R.now <= MaxRegTime
             /\ SetReg(res.R)
             /\ lastInit' = [valid |-> TRUE, name |-> name, script |-> script,
                             err |-> res.err, before |-> Reg, after |-> res.R]
    /\ lastCleanup' = NoCleanup
    /\ UNCHANGED <<ports, phase, wdVars, monVars, outVars, lastWdCheck>>

\* RemoveInterface(name) for any name.
RegRemoveInterface ==
    /\ \E name \in Names : SetReg(RemoveInterface(Reg, name).R)
    /\ lastCleanup' = NoCleanup
    /\ UNCHANGED <<ports, phase, wdVars, monVars, outVars, lastInit, lastWdCheck>>

\* The watchdog's recoverInterface(ifName) for a registered name.
RegRecover ==
    /\ Len(heap) < MaxRegDevices
    /\ \E name \in DOMAIN interfaces, script \in QuickScripts :
         LET res == recoverInterface(Reg, name, script)
         IN  /\ res.R.now <= MaxRegTime
             /\ SetReg(res.R)
    /\ lastCleanup' = NoCleanup
    /\ UNCHANGED <<ports, phase, wdVars, monVars, outVars, lastInit, lastWdCheck>>

\* Cleanup on the registry as it is, any of its Close calls failing.
RegCleanup ==
    /\ \E failed \in SUBSET DOMAIN interfaces :
         LET res == CleanupWith(Reg, failed)
         IN  /\ SetReg(res.R)
             /\ lastCleanup' =
                   [valid |-> TRUE, registered |-> DOMAIN interfaces, failed |-> failed,
                    closes |-> res.closes,
                    after |-> [interfaces |-> res.R.interfaces,
                               openFds |-> res.R.openFds \cap
                                   {heap[interfaces[n]].FD : n \in DOMAIN interfaces}]]
    /\ UNCHANGED <<ports, phase, wdVars, monVars, outVars, lastInit, lastWdCheck>>


\* The watchdog configurations tried: recovery enabled or not, a ceiling of 1
\* or the default.
WatchdogConfigs ==
    {[RecoveryEnabled |-> b, MaxRecoveryAttempts |-> c] :
        b \in BOOLEAN, c \in {1, MaxRecoveryAttempts}}

WdInit ==
    /\ ports = <<"can0">>
    /\ interfaces = <<>> /\ heap = <<>> /\ openFds = {}
    /\ now = 1 /\ phase = "boot"
    /\ wdConfig \in WatchdogConfigs
    /\ recoveryAttempts = <<>>
    /\ wdSnap = <<>> /\ wdPending = <<>>
    /\ suspectTicks = [n \in Names |-> 0]
    /\ healthChecks = <<>>
    /\ initAll = NoInitAll /\ lastSend = NoSend /\ lastStatus = NoStatus

\* InitializeSingle called by a client of the registry for a configured name
\* that is not registered; the call succeeds at its first attempt.
Reregister ==
    /\ phase = "serving"
    /\ wdPending = <<>>
    /\ \E name \in Range(ports) \ DOMAIN interfaces :
         LET one == InitializeSingle(Reg, name, [i \in 1..Retries |-> "ok"])
         IN  /\ Len(one.R.heap) <= MaxDevices
             /\ SetReg(one.R)
    /\ UNCHANGED <<ports, phase, wdVars, monVars, outVars>>

\* checkInterfaces: the loop body, with what it did recorded.
WdCheckObserved(scriptSet) ==
    \E sendOk \in BOOLEAN, script \in scriptSet :
        /\ WdCheckStep(sendOk, script)
        /\ LET ifName == Head(wdPending)
               canIf == heap[wdSnap[ifName]]
               should == shouldCheckInterface(canIf, now)
               healthy == should /\ CheckHealth(Reg, ifName, sendOk)
               h == handleUnhealthyInterface(Reg, recoveryAttempts, ifName, script)
           IN  lastWdCheck' =
                 [valid |-> TRUE, name |-> ifName, at |-> now, stats |-> canIf.Metrics,
                  should |-> should, probed |-> should, healthy |-> healthy,
                  reinit |-> should /\ ~healthy /\ h.reinit,
                  recovered |-> should /\ ~healthy /\ h.recovered,
                  before |-> [interfaces |-> interfaces, openFds |-> openFds],
                  after |-> [interfaces |-> interfaces', openFds |-> openFds'],
                  raBefore |-> recoveryAttempts, raAfter |-> recoveryAttempts']
        /\ UNCHANGED <<lastInit, lastCleanup>>

\* ------------------------------------ goroutines, statement by statement

Senders == {"s1", "s2"}
Checkers == {"wd", "mon"}
Procs == Senders \cup Checkers

Free == "free"

NoFatal == [valid |-> FALSE, reader |-> "s1", readerTarget |-> "can0", writerTarget |-> "can0"]

ConcIdle ==
    /\ pc = [p \in Procs |-> "idle"]
    /\ target = [p \in Procs |-> "can0"]
    /\ held = [p \in Procs |-> 0]
    /\ snap = [p \in Checkers |-> <<>>]
    /\ pending = [p \in Checkers |-> <<>>]
    /\ mutex = <<>>
    /\ fatal = NoFatal
    /\ calls = 0

\* The service as Start leaves it when both configured interfaces initialized
\* at the first attempt.
ConcInit ==
    LET okScript == [i \in 1..Retries |-> "ok"]
        empty == [interfaces |-> <<>>, heap |-> <<>>, openFds |-> {}, now |-> 1]
        r1 == InitializeSingle(empty, "can0", okScript).R
        r2 == InitializeSingle(r1, "can1", okScript).R
    IN  /\ ports = <<"can0", "can1">>
        /\ interfaces = r2.interfaces
        /\ heap = r2.heap
        /\ openFds = r2.openFds
        /\ now = r2.now
        /\ phase = "serving"
        /\ wdConfig = DefaultWatchdogConfig
        /\ recoveryAttempts = <<>>
        /\ wdSnap = <<>> /\ wdPending = <<>> /\ suspectTicks = [n \in Names |-> 0]
        /\ healthChecks = <<>>
        /\ initAll = NoInitAll /\ lastSend = NoSend /\ lastStatus = NoStatus
        /\ pc = [p \in Procs |-> "idle"]
        /\ target = [p \in Procs |-> "can0"]
        /\ held = [p \in Procs |-> 0]
        /\ snap = [p \in Checkers |-> <<>>]
        /\ pending = [p \in Checkers |-> <<>>]
        /\ mutex = [d \in DOMAIN r2.heap |-> Free]
        /\ fatal = NoFatal
        /\ calls = 0

\* p is inside a read of the map im.interfaces.
InMapRead(p) == pc[p] \in {"GetInterface", "GetAllInterfaces", "CheckHealth", "RemoveInterface"}

\* p is inside a write of the map im.interfaces.
InMapWrite(p) == pc[p] \in {"delete", "insert"}

\* The map once the write p is inside has been done.
MapAfter(p) ==
    IF pc[p] = "delete"
    THEN [n \in (DOMAIN interfaces) \ {target[p]} |-> interfaces[n]]
    ELSE (target[p] :> held[p]) @@ interfaces

\* What a read by p may find: the map as it is, or as a write in progress by
\* another goroutine leaves it.
MapViews(p) ==
    {interfaces} \cup {MapAfter(w) : w \in {q \in Procs \ {p} : InMapWrite(q)}}

\* A plausible slip: the probe does not take the device's lock.
CheckHealthLockSkipped(mu, canIf) == TRUE

\* canIf.Lock() in CheckHealth returns once the device's mutex is free.
CheckHealthLock(mu, canIf) == mu[canIf] = Free

\* canIf.Lock() in sendMessage returns once the device's mutex is free.
sendMessageLock(mu, canIf) == mu[canIf] = Free

\* p is inside SendTo on the socket of the device it holds.
InTransmit(p) == pc[p] \in {"SendTo", "probe"}

\* SendCanMessage, for a configured name and a payload within the limit, up to
\* its GetInterface call.
SendEnter(s) ==
    /\ ~fatal.valid
    /\ pc[s] = "idle"
    /\ calls < MaxCalls
    /\ \E name \in Names :
         /\ ValidateInterface(name)
         /\ target' = [target EXCEPT ![s] = name]
    /\ pc' = [pc EXCEPT ![s] = "GetInterface"]
    /\ calls' = calls + 1
    /\ UNCHANGED <<extVars, bufVars, metVars, sysVars, held, snap, pending, mutex, fatal>>

\* GetInterface returns: "not initialized" ends the call, else on to sendMessage.
SendGetInterface(s) ==
    /\ ~fatal.valid
    /\ pc[s] = "GetInterface"
    /\ \E view \in MapViews(s) :
         IF target[s] \in DOMAIN view
         THEN /\ held' = [held EXCEPT ![s] = view[target[s]]]
              /\ pc' = [pc EXCEPT ![s] = "Lock"]
         ELSE /\ pc' = [pc EXCEPT ![s] = "idle"]
              /\ UNCHANGED held
    /\ UNCHANGED <<extVars, bufVars, metVars, sysVars, target, snap, pending, mutex, fatal, calls>>

\* sendMessage: canIf.Lock() returns.
SendLock(s) ==
    /\ ~fatal.valid
    /\ pc[s] = "Lock"
    /\ sendMessageLock(mutex, held[s])
    /\ mutex' = [mutex EXCEPT ![held[s]] = s]
    /\ pc' = [pc EXCEPT ![s] = "SendTo"]
    /\ UNCHANGED <<extVars, bufVars, metVars, sysVars, target, held, snap, pending, fatal, calls>>

\* sendMessage: SendTo returns, the metrics are recorded, the deferred Unlock runs.
SendReturn(s) ==
    /\ ~fatal.valid
    /\ pc[s] = "SendTo"
    /\ \E sendOk \in BOOLEAN, latency \in SeqLatencies :
         SetReg(sendMessage(Reg, held[s], sendOk, latency).R)
    /\ mutex' = [mutex EXCEPT ![held[s]] = Free]
    /\ pc' = [pc EXCEPT ![s] = "idle"]
    /\ UNCHANGED <<extVars, bufVars, metVars, ports, phase, wdVars, monVars, outVars,
                   target, held, snap, pending, fatal, calls>>

\* The watchdog's ticker fires, or a status query arrives: GetAllInterfaces begins.
ScanEnter(p) ==
    /\ ~fatal.valid
    /\ pc[p] = "idle"
    /\ calls < MaxCalls
    /\ IF p = "wd"
       THEN /\ now + CheckInterval <= MaxTime
            /\ now' = now + CheckInterval
       ELSE UNCHANGED now
    /\ pc' = [pc EXCEPT ![p] = "GetAllInterfaces"]
    /\ calls' = calls + 1
    /\ UNCHANGED <<extVars, bufVars, metVars, ports, interfaces, heap, openFds, phase, wdVars,
                   monVars, outVars, target, held, snap, pending, mutex, fatal>>

\* GetAllInterfaces returns its copy; the range over it visits the names in some order.
ScanCopy(p) ==
    /\ ~fatal.valid
    /\ pc[p] = "GetAllInterfaces"
    /\ \E view \in MapViews(p) :
         /\ snap' = [snap EXCEPT ![p] = view]
         /\ \E order \in SeqsOf(DOMAIN view) : pending' = [pending EXCEPT ![p] = order]
    /\ pc' = [pc EXCEPT ![p] = "range"]
    /\ UNCHANGED <<extVars, bufVars, metVars, sysVars, target, held, mutex, fatal, calls>>

\* The range statement: the next name of the copy, or the end of the loop. The
\* watchdog calls CheckHealth only when shouldCheckInterface says so.
ScanNext(p) ==
    /\ ~fatal.valid
    /\ pc[p] = "range"
    /\ IF pending[p] = <<>>
       THEN /\ pc' = [pc EXCEPT ![p] = "idle"]
            /\ UNCHANGED <<target, pending>>
       ELSE LET ifName == Head(pending[p])
            IN  /\ target' = [target EXCEPT ![p] = ifName]
                /\ pending' = [pending EXCEPT ![p] = Tail(@)]
                /\ pc' = [pc EXCEPT ![p] =
                            IF p = "wd" /\ ~shouldCheckInterface(heap[snap[p][ifName]], now)
                            THEN "range" ELSE "CheckHealth"]
    /\ UNCHANGED <<extVars, bufVars, metVars, sysVars, held, snap, mutex, fatal, calls>>

\* What follows a CheckHealth result. The monitor records it in its tracker;
\* the watchdog resets the attempts on success and on failure goes through
\* handleUnhealthyInterface up to the RemoveInterface call of recoverInterface.
AfterCheckHealth(p, isHealthy) ==
    IF p = "mon"
    THEN /\ healthChecks' = (target[p] :> checkInterfaceHealth(healthChecks, target[p], isHealthy))
                               @@ healthChecks
         /\ pc' = [pc EXCEPT ![p] = "range"]
         /\ UNCHANGED recoveryAttempts
    ELSE IF isHealthy
    THEN /\ recoveryAttempts' = resetRecoveryAttempts(recoveryAttempts, target[p])
         /\ pc' = [pc EXCEPT ![p] = "range"]
         /\ UNCHANGED healthChecks
    ELSE /\ pc' = [pc EXCEPT ![p] =
                     IF /\ wdConfig.RecoveryEnabled
                        /\ getRecoveryAttempts(recoveryAttempts, target[p])
                              < wdConfig.MaxRecoveryAttempts
                     THEN "RemoveInterface" ELSE "range"]
         /\ UNCHANGED <<recoveryAttempts, healthChecks>>

\* CheckHealth: the map read returns; an unknown name is unhealthy at once.
CheckHealthLookup(p) ==
    /\ ~fatal.valid
    /\ pc[p] = "CheckHealth"
    /\ \E view \in MapViews(p) :
         IF target[p] \in DOMAIN view
         THEN /\ held' = [held EXCEPT ![p] = view[target[p]]]
              /\ pc' = [pc EXCEPT ![p] = "Lock"]
              /\ UNCHANGED <<recoveryAttempts, healthChecks>>
         ELSE /\ AfterCheckHealth(p, FALSE)
              /\ UNCHANGED held
    /\ UNCHANGED <<extVars, bufVars, metVars, regVars, wdConfig, wdSnap, wdPending, suspectTicks,
                   outVars, target, snap, pending, mutex, fatal, calls>>

\* CheckHealth: canIf.Lock() returns.
CheckHealthAcquire(p) ==
    /\ ~fatal.valid
    /\ pc[p] = "Lock"
    /\ CheckHealthLock(mutex, held[p])
    /\ mutex' = [mutex EXCEPT ![held[p]] = p]
    /\ pc' = [pc EXCEPT ![p] = "probe"]
    /\ UNCHANGED <<extVars, bufVars, metVars, sysVars, target, held, snap, pending, fatal, calls>>

\* CheckHealth: the probe's SendTo returns, the deferred Unlock runs.
CheckHealthReturn(p) ==
    /\ ~fatal.valid
    /\ pc[p] = "probe"
    /\ mutex' = [mutex EXCEPT ![held[p]] = Free]
    /\ \E sendOk \in BOOLEAN : AfterCheckHealth(p, sendOk)
    /\ UNCHANGED <<extVars, bufVars, metVars, regVars, wdConfig, wdSnap, wdPending, suspectTicks,
                   outVars, target, held, snap, pending, fatal, calls>>

\* RemoveInterface: the map read returns; an unknown name is an error the
\* caller only logs, else the socket is closed and the delete begins.
RemoveLookup ==
    /\ ~fatal.valid
    /\ pc["wd"] = "RemoveInterface"
    /\ \E view \in MapViews("wd") :
         IF target["wd"] \in DOMAIN view
         THEN /\ openFds' = Close(Reg, heap[view[target["wd"]]].FD).openFds
              /\ pc' = [pc EXCEPT !["wd"] = "delete"]
         ELSE /\ pc' = [pc EXCEPT !["wd"] = "InitializeSingle"]
              /\ UNCHANGED openFds
    /\ UNCHANGED <<extVars, bufVars, metVars, ports, interfaces, heap, now, phase, wdVars, monVars,
                   outVars, target, held, snap, pending, mutex, fatal, calls>>

\* RemoveInterface: delete(im.interfaces, name) is done.
RemoveDelete ==
    /\ ~fatal.valid
    /\ pc["wd"] = "delete"
    /\ interfaces' = MapAfter("wd")
    /\ pc' = [pc EXCEPT !["wd"] = "InitializeSingle"]
    /\ UNCHANGED <<extVars, bufVars, metVars, ports, heap, openFds, now, phase, wdVars, monVars,
                   outVars, target, held, snap, pending, mutex, fatal, calls>>

\* InitializeSingle of recoverInterface, up to its map insert: a failure
\* increments the attempts, a success has the new device in hand.
RecoverCreate ==
    /\ ~fatal.valid
    /\ pc["wd"] = "InitializeSingle"
    /\ \E script \in QuickScripts :
         LET one == InitializeSingle(Reg, target["wd"], script)
         IN  /\ Len(one.R.heap) <= MaxDevices
             /\ one.R.now <= MaxTime
             /\ heap' = one.R.heap
             /\ openFds' = one.R.openFds
             /\ now' = one.R.now
             /\ IF one.err
                THEN /\ recoveryAttempts' =
                            incrementRecoveryAttempts(recoveryAttempts, target["wd"])
                     /\ pc' = [pc EXCEPT !["wd"] = "range"]
                     /\ UNCHANGED <<held, mutex>>
                ELSE /\ held' = [held EXCEPT !["wd"] = one.R.interfaces[target["wd"]]]
                     /\ mutex' = (one.R.interfaces[target["wd"]] :> Free) @@ mutex
                     /\ pc' = [pc EXCEPT !["wd"] = "insert"]
                     /\ UNCHANGED recoveryAttempts
    /\ UNCHANGED <<extVars, bufVars, metVars, ports, interfaces, phase, wdConfig, wdSnap, wdPending,
                   suspectTicks, monVars, outVars, target, snap, pending, fatal, calls>>

\* InitializeSingle: im.interfaces[ifName] = canIf is done; the attempts are reset.
RecoverInsert ==
    /\ ~fatal.valid
    /\ pc["wd"] = "insert"
    /\ interfaces' = MapAfter("wd")
    /\ recoveryAttempts' = resetRecoveryAttempts(recoveryAttempts, target["wd"])
    /\ pc' = [pc EXCEPT !["wd"] = "range"]
    /\ UNCHANGED <<extVars, bufVars, metVars, ports, heap, openFds, now, phase, wdConfig, wdSnap,
                   wdPending, suspectTicks, monVars, outVars, target, held, snap, pending,
                   mutex, fatal, calls>>

\* The Go runtime finds a map read overlapping a map write and ends the
\* process: "fatal error: concurrent map read and map write".
ConcurrentMapAccess ==
    /\ ~fatal.valid
    /\ \E r \in Procs, w \in Procs :
         /\ r # w
         /\ InMapRead(r)
         /\ InMapWrite(w)
         /\ fatal' = [valid |-> TRUE, reader |-> r, readerTarget |-> target[r],
                      writerTarget |-> target[w]]
    /\ UNCHANGED <<extVars, bufVars, metVars, sysVars, pc, target, held, snap, pending, mutex, calls>>

\* ------------------------------------------------- CanMessageListener

\* The interface names the listener's callers pass.
LNames == {"can0", "can1"}

ListenerCap == 2       \* maxMessages of the listener's buffers
MaxListenCalls == 3    \* API calls on the listener per run
MaxFrames == 2         \* frames the capture loops read per run

ErrNotListening == "not listening on interface"
ErrNoBuffer == "no message buffer for interface"
ErrListenSocket == "failed to create listening socket"
ErrListenIfindex == "failed to get interface index"
ErrListenBind == "failed to bind listening socket"

\* NewCanMessageListener: empty maps and a live context.
NewCanMessageListener ==
    [buffers |-> [n \in LNames |-> 0], listeners |-> [n \in LNames |-> 0],
     ctxDone |-> FALSE, shutdownReturned |-> FALSE]

\* The interfaceListener StartListening builds; its goroutine has been
\* created and has not run yet.
NewInterfaceListener(name, socket, buffer) ==
    [interfaceName |-> name, socket |-> socket, isRunning |-> FALSE,
     stopChan |-> 0, buffer |-> buffer, loop |-> "spawned", stopped |-> FALSE]

\* IsListening: exists && listener.isRunning.
IsListeningIn(c, objs, name) ==
    c.listeners[name] # 0 /\ objs[c.listeners[name]].isRunning

IsListening(name) == IsListeningIn(cml, lsnObjs, name)

\* What the API reports of the listener, and the descriptors behind it.
LsnViewOf(c, bo, lo, fds) ==
    [listeners |-> c.listeners,
     buffers |-> c.buffers,
     fds |-> fds,
     nListeners |-> Len(lo),
     totals |-> [n \in LNames |-> IF c.buffers[n] = 0 THEN 0
                                  ELSE GetStatistics(bo[c.buffers[n]]).totalReceived],
     buffered |-> [n \in LNames |-> IF c.buffers[n] = 0 THEN 0
                                    ELSE GetStatistics(bo[c.buffers[n]]).bufferedCount],
     listening |-> [n \in LNames |-> IsListeningIn(c, lo, n)]]

LsnView == LsnViewOf(cml, bufObjs, lsnObjs, lsnFds)

NoLsnOp ==
    [op |-> "none", name |-> "", err |-> ErrNone, target |-> 0, signalled |-> FALSE,
     before |-> LsnViewOf(NewCanMessageListener, <<>>, <<>>, {}),
     after |-> LsnViewOf(NewCanMessageListener, <<>>, <<>>, {})]

LsnIdle ==
    /\ cml = NewCanMessageListener
    /\ bufObjs = <<>> /\ lsnObjs = <<>> /\ lsnFds = {}
    /\ lsnCalls = 0 /\ lsnFrames = 0
    /\ lastLsnOp = NoLsnOp

LsnInit == LsnIdle

\* The record of a call: what it was and the listener before and after it.
LsnOp(op, name, err, tgt, sig, before) ==
    [op |-> op, name |-> name, err |-> err, target |-> tgt, signalled |-> sig,
     before |-> before, after |-> LsnViewOf(cml', bufObjs', lsnObjs', lsnFds')]

\* StartListening(interfaceName), under buffersMutex: returns at once when a
\* listener is registered and its isRunning reads true; otherwise replaces the
\* name's buffer, opens and binds a socket, registers a new listener and
\* creates its goroutine.
StartListening ==
    /\ lsnCalls < MaxListenCalls
    /\ lsnCalls' = lsnCalls + 1
    /\ UNCHANGED lsnFrames
    /\ \E name \in LNames, outcome \in CreateOutcomes :
         LET before == LsnView
             nb == Len(bufObjs) + 1
             fd == LowestFreeFd(lsnFds)
             nl == Len(lsnObjs) + 1
         IN  IF IsListening(name)
             THEN /\ outcome = "ok"
                  /\ UNCHANGED <<cml, bufObjs, lsnObjs, lsnFds>>
                  /\ lastLsnOp' = LsnOp("StartListening", name, ErrNone, 0, FALSE, before)
             ELSE /\ bufObjs' = Append(bufObjs, NewInterfaceMessageBuffer(ListenerCap))
                  /\ IF outcome = "ok"
                     THEN /\ lsnFds' = lsnFds \cup {fd}
                          /\ lsnObjs' = Append(lsnObjs, NewInterfaceListener(name, fd, nb))
                          /\ cml' = [cml EXCEPT !.buffers[name] = nb, !.listeners[name] = nl]
                          /\ lastLsnOp' = LsnOp("StartListening", name, ErrNone, nl, FALSE, before)
                     ELSE /\ cml' = [cml EXCEPT !.buffers[name] = nb]
                          /\ UNCHANGED <<lsnObjs, lsnFds>>
                          /\ lastLsnOp' = LsnOp("StartListening", name,
                                                CASE outcome = "socket" -> ErrListenSocket
                                                  [] outcome = "ifindex" -> ErrListenIfindex
                                                  [] OTHER -> ErrListenBind,
                                                0, FALSE, before)

\* stopListeningUnsafe on a registered name: a stop signal if isRunning reads
\* true, the socket closed, the entry deleted.
StopRegistered(c, lo, fds, name) ==
    LET li == c.listeners[name]
        l == lo[li]
    IN  [cml |-> [c EXCEPT !.listeners[name] = 0],
         lsnObjs |-> [lo EXCEPT ![li].stopChan = IF l.isRunning THEN 1 ELSE @,
                                ![li].stopped = TRUE],
         lsnFds |-> fds \ {l.socket},
         signalled |-> l.isRunning]

\* StopListening(interfaceName), under buffersMutex.
StopListening ==
    /\ lsnCalls < MaxListenCalls
    /\ lsnCalls' = lsnCalls + 1
    /\ UNCHANGED <<bufObjs, lsnFrames>>
    /\ \E name \in LNames :
         LET before == LsnView
             li == cml.listeners[name]
         IN  IF li = 0
             THEN /\ UNCHANGED <<cml, lsnObjs, lsnFds>>
                  /\ lastLsnOp' = LsnOp("StopListening", name, ErrNotListening, 0, FALSE, before)
             ELSE LET r == StopRegistered(cml, lsnObjs, lsnFds, name)
                  IN  /\ cml' = r.cml
                      /\ lsnObjs' = r.lsnObjs
                      /\ lsnFds' = r.lsnFds
                      /\ lastLsnOp' = LsnOp("StopListening", name, ErrNone, li, r.signalled, before)

\* ClearMessages(interfaceName): Clear on the name's buffer.
ClearMessages ==
    /\ lsnCalls < MaxListenCalls
    /\ lsnCalls' = lsnCalls + 1
    /\ UNCHANGED <<cml, lsnObjs, lsnFds, lsnFrames>>
    /\ \E name \in LNames :
         LET before == LsnView
             bi == cml.buffers[name]
         IN  IF bi = 0
             THEN /\ UNCHANGED bufObjs
                  /\ lastLsnOp' = LsnOp("ClearMessages", name, ErrNoBuffer, 0, FALSE, before)
             ELSE /\ bufObjs' = [bufObjs EXCEPT ![bi] = Clear(@)]
                  /\ lastLsnOp' = LsnOp("ClearMessages", name, ErrNone, 0, FALSE, before)

\* ClearAllMessages: Clear on every buffer of the map.
ClearAllMessages ==
    /\ lsnCalls < MaxListenCalls
    /\ lsnCalls' = lsnCalls + 1
    /\ UNCHANGED <<cml, lsnObjs, lsnFds, lsnFrames>>
    /\ LET before == LsnView
           mapped == {cml.buffers[n] : n \in LNames} \ {0}
       IN  /\ bufObjs' = [i \in DOMAIN bufObjs |->
                            IF i \in mapped THEN Clear(bufObjs[i]) ELSE bufObjs[i]]
           /\ lastLsnOp' = LsnOp("ClearAllMessages", "", ErrNone, 0, FALSE, before)

\* Shutdown, first statement: cml.cancel().
ShutdownCancel ==
    /\ ~cml.ctxDone
    /\ cml' = [cml EXCEPT !.ctxDone = TRUE]
    /\ UNCHANGED <<bufObjs, lsnObjs, lsnFds, lsnCalls, lsnFrames, lastLsnOp>>

\* stopListeningUnsafe for each of the given names in turn.
RECURSIVE StopAll(_, _, _, _)
StopAll(c, lo, fds, names) ==
    IF names = {} THEN [cml |-> c, lsnObjs |-> lo, lsnFds |-> fds]
    ELSE LET n == CHOOSE x \in names : TRUE
             r == StopRegistered(c, lo, fds, n)
         IN  StopAll(r.cml, r.lsnObjs, r.lsnFds, names \ {n})

\* Shutdown, the rest: under buffersMutex, every registered listener stopped.
ShutdownStopAll ==
    /\ cml.ctxDone /\ ~cml.shutdownReturned
    /\ LET before == LsnView
           r == StopAll(cml, lsnObjs, lsnFds, {n \in LNames : cml.listeners[n] # 0})
       IN  /\ cml' = [r.cml EXCEPT !.shutdownReturned = TRUE]
           /\ lsnObjs' = r.lsnObjs
           /\ lsnFds' = r.lsnFds
           /\ UNCHANGED <<bufObjs, lsnCalls, lsnFrames>>
           /\ lastLsnOp' = LsnOp("Shutdown", "", ErrNone, 0, FALSE, before)

\* listenOnInterface, first statement: listener.isRunning = true.
LoopStart ==
    \E li \in DOMAIN lsnObjs :
        /\ lsnObjs[li].loop = "spawned"
        /\ lsnObjs' = [lsnObjs EXCEPT ![li].loop = "running", ![li].isRunning = TRUE]
        /\ UNCHANGED <<cml, bufObjs, lsnFds, lsnCalls, lsnFrames, lastLsnOp>>

\* listenOnInterface, the default branch of the select, taken when neither
\* the stop channel nor the context is ready: the loop goes on to read.
LoopSelectDefault ==
    \E li \in DOMAIN lsnObjs :
        /\ lsnObjs[li].loop = "running"
        /\ lsnObjs[li].stopChan = 0 /\ ~cml.ctxDone
        /\ lsnObjs' = [lsnObjs EXCEPT ![li].loop = "reading"]
        /\ UNCHANGED <<cml, bufObjs, lsnFds, lsnCalls, lsnFrames, lastLsnOp>>

\* listenOnInterface, unix.Read returning a frame of 16 bytes, which is added
\* to the listener's buffer.  The read is on the descriptor number the
\* listener holds, whatever socket that number now names.
LoopReceive ==
    /\ lsnFrames < MaxFrames
    /\ \E li \in DOMAIN lsnObjs :
         LET l == lsnObjs[li]
             before == LsnView
             msg == [ID |-> 1, Timestamp |-> lsnFrames + 1, Direction |-> "RX"]
         IN  /\ l.loop = "reading"
             /\ l.socket \in lsnFds
             /\ bufObjs' = [bufObjs EXCEPT ![l.buffer] = AddMessage(@, msg)]
             /\ lsnFrames' = lsnFrames + 1
             /\ lsnObjs' = [lsnObjs EXCEPT ![li].loop = "running"]
             /\ UNCHANGED <<cml, lsnFds, lsnCalls>>
             /\ lastLsnOp' = LsnOp("arrival", l.interfaceName, ErrNone, li, FALSE, before)

\* listenOnInterface, unix.Read returning an error (the one-second timeout,
\* or a closed descriptor): continue.
LoopReadError ==
    \E li \in DOMAIN lsnObjs :
        /\ lsnObjs[li].loop = "reading"
        /\ lsnObjs' = [lsnObjs EXCEPT ![li].loop = "running"]
        /\ UNCHANGED <<cml, bufObjs, lsnFds, lsnCalls, lsnFrames, lastLsnOp>>

\* listenOnInterface, the stop and the context branches of the select, and the
\* deferred isRunning = false.
LoopExit ==
    \E li \in DOMAIN lsnObjs :
        LET l == lsnObjs[li]
        IN  /\ l.loop = "running"
            /\ \/ /\ l.stopChan = 1
                  /\ lsnObjs' = [lsnObjs EXCEPT ![li].loop = "exited", ![li].isRunning = FALSE,
                                                ![li].stopChan = 0]
               \/ /\ cml.ctxDone
                  /\ lsnObjs' = [lsnObjs EXCEPT ![li].loop = "exited", ![li].isRunning = FALSE]
            /\ UNCHANGED <<cml, bufObjs, lsnFds, lsnCalls, lsnFrames, lastLsnOp>>

\* ------------------------------- listenOnInterface, one read at a time

FrameLengths == {0, 1, 8, 9, 255}   \* values of the length byte tried
ReadSizes == {0, 8, 15, 16}         \* byte counts unix.Read returns

\* What unix.Read can hand back: n bytes of a frame with some identifier,
\* length byte and payload, or an error (EAGAIN after the timeout, or another).
ReadResults ==
    {[kind |-> "read",
      bytes |-> SubSeq(FrameBytes(order,
                           [ID |-> id, Length |-> len, Pad |-> <<0, 0, 0>>,
                            Data |-> [i \in 1..MaxDataLen |-> 16 * i + 1]]), 1, n)] :
        order \in ByteOrders, id \in {Uint32(0, 291), Uint32(65535, 65535)},
        len \in FrameLengths, n \in ReadSizes}
    \cup {[kind |-> "timeout", bytes |-> <<>>], [kind |-> "error", bytes |-> <<>>]}

\* The log entry built from a frame.
NewCanMessageLog(name, frame, at) ==
    [Interface |-> name, ID |-> frame.ID, Data |-> frame.Data, Length |-> frame.Length,
     Timestamp |-> at, Direction |-> "RX"]

\* frame.Data[:frame.Length] on the [8]byte array: a slice bound above 8 is a
\* run-time panic.
SliceInBounds(bytes) == bytes[5] <= MaxDataLen

\* Whether the body of the default branch reaches AddMessage: no read error,
\* n >= 16, and the slice expression evaluated.
HandleReadAppends(res) ==
    res.kind = "read" /\ Len(res.bytes) >= 16 /\ SliceInBounds(res.bytes)

\* Whether the body panics.
HandleReadPanics(res) ==
    res.kind = "read" /\ Len(res.bytes) >= 16 /\ ~SliceInBounds(res.bytes)

\* A listener on can0 whose loop has passed the select and is in unix.Read.
CaptureInit ==
    /\ hostOrder \in ByteOrders
    /\ txFrame = [ID |-> Uint32(0, 0), Data |-> <<>>]
    /\ wire = NoWire
    /\ rxFrame = NoRx
    /\ cml = [NewCanMessageListener EXCEPT !.buffers["can0"] = 1, !.listeners["can0"] = 1]
    /\ bufObjs = <<NewInterfaceMessageBuffer(ListenerCap)>>
    /\ lsnObjs = <<[NewInterfaceListener("can0", 3, 1) EXCEPT !.loop = "reading",
                                                               !.isRunning = TRUE]>>
    /\ lsnFds = {3}
    /\ lsnCalls = 1 /\ lsnFrames = 0
    /\ lastLsnOp = NoLsnOp

\* listenOnInterface, unix.Read returning and the rest of the default branch:
\* continue on an error, skip a short read, otherwise decode and AddMessage,
\* or panic in the slice expression.
CaptureRead ==
    /\ lsnFrames < MaxFrames
    /\ lsnObjs[1].loop = "reading"
    /\ \E res \in ReadResults :
         LET before == LsnView
             l == lsnObjs[1]
         IN  /\ wire' = res
             /\ lsnFrames' = lsnFrames + 1
             /\ IF HandleReadPanics(res)
                THEN /\ lsnObjs' = [lsnObjs EXCEPT ![1].loop = "panicked", ![1].isRunning = FALSE]
                     /\ UNCHANGED <<bufObjs, rxFrame>>
                ELSE IF HandleReadAppends(res)
                THEN /\ rxFrame' = DecodeFrame(hostOrder, res.bytes)
                     /\ bufObjs' = [bufObjs EXCEPT ![l.buffer] =
                                       AddMessage(@, NewCanMessageLog(l.interfaceName,
                                                      DecodeFrame(hostOrder, res.bytes),
                                                      lsnFrames + 1))]
                     /\ lsnObjs' = [lsnObjs EXCEPT ![1].loop = "running"]
                ELSE /\ lsnObjs' = [lsnObjs EXCEPT ![1].loop = "running"]
                     /\ UNCHANGED <<bufObjs, rxFrame>>
             /\ UNCHANGED <<cml, lsnFds, lsnCalls, hostOrder, txFrame>>
             /\ lastLsnOp' = LsnOp("read", l.interfaceName, ErrNone, 1, FALSE, before)

\* ------------------------------------------- Watchdog.Start, Watchdog.Stop

MaxLifeCalls == 4      \* Start and Stop calls per run
MaxLifeTicks == 1      \* ticks the monitor loops serve per run

\* NewWatchdog: not running, stopChan made once and open, no goroutine.
NewWatchdogLife ==
    [running |-> FALSE, stopChanClosed |-> FALSE, wg |-> 0, loops |-> 0,
     spawned |-> 0, ticks |-> 0, ctxDone |-> FALSE, panicked |-> FALSE]

NoWdOp ==
    [op |-> "none", err |-> ErrNone, before |-> NewWatchdogLife,
     after |-> NewWatchdogLife, noops |-> {}]

LifeIdle ==
    /\ wdLife = NewWatchdogLife
    /\ wdCall = "idle"
    /\ wdCallsMade = 0
    /\ lastWdOp = NoWdOp

LifeInit == LifeIdle

\* A plausible slip: Start without its running check.
StartReturnsEarlyNever(w) == FALSE

\* Start's guard: if w.running { return nil }.
StartReturnsEarly(w) == w.running

\* Stop's guard: if !w.running { return nil }.
StopReturnsEarly(w) == ~w.running

\* Start, under w.mu: returns nil at once when running, else sets running.
WatchdogStart ==
    /\ ~wdLife.panicked
    /\ wdCall = "idle"
    /\ wdCallsMade < MaxLifeCalls
    /\ wdCallsMade' = wdCallsMade + 1
    /\ IF StartReturnsEarly(wdLife)
       THEN /\ lastWdOp' = [op |-> "Start", err |-> ErrNone, before |-> wdLife,
                            after |-> wdLife, noops |-> lastWdOp.noops \cup {"Start"}]
            /\ UNCHANGED <<wdLife, wdCall>>
       ELSE /\ wdLife' = [wdLife EXCEPT !.running = TRUE]
            /\ wdCall' = "Start:go"
            /\ UNCHANGED lastWdOp

\* Start, after the unlock: w.wg.Add(1); go w.monitorLoop(ctx); return nil.
WatchdogStartGo ==
    /\ ~wdLife.panicked
    /\ wdCall = "Start:go"
    /\ wdLife' = [wdLife EXCEPT !.wg = @ + 1, !.loops = @ + 1, !.spawned = @ + 1]
    /\ wdCall' = "idle"
    /\ lastWdOp' = [lastWdOp EXCEPT !.op = "Start", !.err = ErrNone,
                                    !.before = [wdLife EXCEPT !.running = FALSE],
                                    !.after = wdLife']
    /\ UNCHANGED wdCallsMade

\* Stop, under w.mu: returns nil at once when not running, else clears running.
WatchdogStop ==
    /\ ~wdLife.panicked
    /\ wdCall = "idle"
    /\ wdCallsMade < MaxLifeCalls
    /\ wdCallsMade' = wdCallsMade + 1
    /\ IF StopReturnsEarly(wdLife)
       THEN /\ lastWdOp' = [op |-> "Stop", err |-> ErrNone, before |-> wdLife,
                            after |-> wdLife, noops |-> lastWdOp.noops \cup {"Stop"}]
            /\ UNCHANGED <<wdLife, wdCall>>
       ELSE /\ wdLife' = [wdLife EXCEPT !.running = FALSE]
            /\ wdCall' = "Stop:close"
            /\ UNCHANGED lastWdOp

\* Stop, after the unlock: close(w.stopChan), which panics on a channel that
\* is already closed.
WatchdogStopClose ==
    /\ ~wdLife.panicked
    /\ wdCall = "Stop:close"
    /\ IF wdLife.stopChanClosed
       THEN wdLife' = [wdLife EXCEPT !.panicked = TRUE] /\ UNCHANGED wdCall
       ELSE wdLife' = [wdLife EXCEPT !.stopChanClosed = TRUE] /\ wdCall' = "Stop:wait"
    /\ UNCHANGED <<wdCallsMade, lastWdOp>>

\* Stop, w.wg.Wait() and return nil.
WatchdogStopWait ==
    /\ ~wdLife.panicked
    /\ wdCall = "Stop:wait"
    /\ wdLife.wg = 0
    /\ wdCall' = "idle"
    /\ lastWdOp' = [lastWdOp EXCEPT !.op = "Stop", !.err = ErrNone,
                                    !.before = [wdLife EXCEPT !.running = TRUE],
                                    !.after = wdLife]
    /\ UNCHANGED <<wdLife, wdCallsMade>>

\* monitorLoop, the ticker branch of the select.  A loop created after
\* stopChan was closed finds the stop branch ready at its first select, long
\* before its ticker fires; only a loop that was running when Stop closed the
\* channel may still serve a tick that fired at the same time.
MonitorLoopTick ==
    /\ ~wdLife.panicked
    /\ wdLife.loops > 0
    /\ ~wdLife.stopChanClosed \/ wdCall = "Stop:wait"
    /\ wdLife.ticks < MaxLifeTicks
    /\ wdLife' = [wdLife EXCEPT !.ticks = @ + 1]
    /\ UNCHANGED <<wdCall, wdCallsMade, lastWdOp>>

\* monitorLoop, the ctx.Done and stopChan branches, and the deferred wg.Done.
MonitorLoopExit ==
    /\ ~wdLife.panicked
    /\ wdLife.loops > 0
    /\ wdLife.stopChanClosed \/ wdLife.ctxDone
    /\ wdLife' = [wdLife EXCEPT !.loops = @ - 1, !.wg = @ - 1]
    /\ UNCHANGED <<wdCall, wdCallsMade, lastWdOp>>

\* main cancels the context handed to Start.
LifeCtxCancel ==
    /\ ~wdLife.panicked
    /\ ~wdLife.ctxDone
    /\ wdLife' = [wdLife EXCEPT !.ctxDone = TRUE]
    /\ UNCHANGED <<wdCall, wdCallsMade, lastWdOp>>

\* ------------------------------------------------------- specifications

\* The other components, idle, for a specification of one of them.
BufIdle == buf = NewInterfaceMessageBuffer(1) /\ bufHistory = <<>> /\ bufClock = 0

MetIdle ==
    /\ metrics = NewInterfaceMetrics /\ latHistory = <<>>
    /\ latPlan = [first |-> 4, switchAt |-> 0, then |-> 1]

SysIdle ==
    /\ ports = <<"can0">> /\ interfaces = <<>> /\ heap = <<>> /\ openFds = {}
    /\ now = 1 /\ phase = "boot"
    /\ wdConfig = DefaultWatchdogConfig /\ recoveryAttempts = <<>>
    /\ wdSnap = <<>> /\ wdPending = <<>> /\ suspectTicks = [n \in Names |-> 0]
    /\ healthChecks = <<>>
    /\ initAll = NoInitAll /\ lastSend = NoSend /\ lastStatus = NoStatus

\* The other components' extras, idle.
MoreIdle == LsnIdle /\ LifeIdle /\ ObsIdle /\ LateIdle

ExtIdle == CodecIdle /\ lastRecent = NoRecent /\ MoreIdle

\* One frame through the codec.
CodecInitOnly ==
    CodecInit /\ lastRecent = NoRecent /\ MoreIdle /\ BufIdle /\ MetIdle /\ SysIdle /\ ConcIdle

CodecNext ==
    \/ CodecSend /\ UNCHANGED <<bufVars, metVars, sysVars, concVars, moreVars>>
    \/ CodecProbe /\ UNCHANGED <<bufVars, metVars, sysVars, concVars, moreVars>>
    \/ CodecCapture /\ UNCHANGED <<bufVars, metVars, sysVars, concVars, moreVars>>

SpecCodec == CodecInitOnly /\ [][CodecNext]_vars

\* The ring buffer alone.
BufInitOnly == BufInit /\ MetIdle /\ SysIdle /\ ConcIdle /\ ExtIdle

BufNext ==
    \/ BufAdd /\ UNCHANGED <<metVars, sysVars, concVars, extVars>>
    \/ BufClear /\ UNCHANGED <<metVars, sysVars, concVars, extVars>>
    \/ BufRecent /\ UNCHANGED <<metVars, sysVars, concVars, codecVars, moreVars>>

SpecBuffer == BufInitOnly /\ [][BufNext]_vars

\* The metrics object alone.
MetInitOnly == MetInit /\ BufIdle /\ SysIdle /\ ConcIdle /\ ExtIdle

MetNext ==
    \/ MetSendOk /\ UNCHANGED <<bufVars, sysVars, concVars, extVars>>
    \/ MetSendFail /\ UNCHANGED <<bufVars, sysVars, concVars, extVars>>

SpecMetrics == MetInitOnly /\ [][MetNext]_vars

\* Successful and failed sends in any order.
StatInitOnly == MetInit /\ BufIdle /\ SysIdle /\ ConcIdle /\ ExtIdle

StatNext ==
    \/ StatSendOk /\ UNCHANGED <<bufVars, sysVars, concVars, extVars>>
    \/ StatSendFail /\ UNCHANGED <<bufVars, sysVars, concVars, extVars>>

SpecStats == StatInitOnly /\ [][StatNext]_vars

\* The service under its watchdog: start-up, user sends, watchdog ticks, stop.
Init == SysInit /\ BufIdle /\ MetIdle /\ ConcIdle /\ ExtIdle

Next ==
    \/ BootWith(QuickScripts) /\ UNCHANGED <<bufVars, metVars, concVars, extVars>>
    \/ StartService /\ UNCHANGED <<bufVars, metVars, concVars, extVars>>
    \/ SendWith(Range(ports), {<<7>>}, FALSE) /\ UNCHANGED <<bufVars, metVars, concVars, extVars>>
    \/ TickBegin /\ UNCHANGED <<bufVars, metVars, concVars, extVars>>
    \/ WdCheckWith(QuickScripts) /\ UNCHANGED <<bufVars, metVars, concVars, extVars>>
    \/ StopService /\ UNCHANGED <<bufVars, metVars, concVars, extVars>>

Spec == Init /\ [][Next]_vars

\* The send path: start-up with the default watchdog configuration, then
\* SendCanMessage calls of every kind against a registry that its clients may
\* also fill with names outside the configuration.
SendInit == SysInit /\ wdConfig = DefaultWatchdogConfig /\ BufIdle /\ MetIdle /\ ConcIdle /\ ExtIdle

SendNext ==
    \/ BootWith(QuickScripts) /\ UNCHANGED <<bufVars, metVars, concVars, extVars>>
    \/ StartService /\ UNCHANGED <<bufVars, metVars, concVars, extVars>>
    \/ Register /\ UNCHANGED <<bufVars, metVars, concVars, extVars>>
    \/ SendWith(Names, SendPayloads, TRUE) /\ UNCHANGED <<bufVars, metVars, concVars, extVars>>

SpecSend == SendInit /\ [][SendNext]_vars

\* Start-up and the monitor: InitializeAll under every script, then status queries.
StatusNext ==
    \/ BootWith(InitScripts) /\ UNCHANGED <<bufVars, metVars, concVars, extVars>>
    \/ StartService /\ UNCHANGED <<bufVars, metVars, concVars, extVars>>
    \/ StatusQuery /\ UNCHANGED <<bufVars, metVars, concVars, extVars>>
    \/ StopService /\ UNCHANGED <<bufVars, metVars, concVars, extVars>>

SpecStatus == SendInit /\ [][StatusNext]_vars

\* The goroutines of the running service, interleaved statement by statement.
ConcNext ==
    \/ \E s \in Senders : SendEnter(s)
    \/ \E s \in Senders : SendGetInterface(s)
    \/ \E s \in Senders : SendLock(s)
    \/ \E s \in Senders : SendReturn(s)
    \/ \E p \in Checkers : ScanEnter(p)
    \/ \E p \in Checkers : ScanCopy(p)
    \/ \E p \in Checkers : ScanNext(p)
    \/ \E p \in Checkers : CheckHealthLookup(p)
    \/ \E p \in Checkers : CheckHealthAcquire(p)
    \/ \E p \in Checkers : CheckHealthReturn(p)
    \/ RemoveLookup
    \/ RemoveDelete
    \/ RecoverCreate
    \/ RecoverInsert
    \/ ConcurrentMapAccess

ConcInitOnly == ConcInit /\ BufIdle /\ MetIdle /\ ExtIdle

SpecConc == ConcInitOnly /\ [][ConcNext]_vars

\* The listener: its API calls and its capture goroutines, interleaved.
LsnInitOnly ==
    LsnInit /\ LifeIdle /\ ObsIdle /\ LateIdle /\ CodecIdle /\ lastRecent = NoRecent /\ BufIdle /\ MetIdle /\ SysIdle /\ ConcIdle

LsnNext ==
    \/ StartListening /\ UNCHANGED <<bufVars, metVars, sysVars, concVars, codecVars, lastRecent, lifeVars, obsVars, lateVars>>
    \/ StopListening /\ UNCHANGED <<bufVars, metVars, sysVars, concVars, codecVars, lastRecent, lifeVars, obsVars, lateVars>>
    \/ ClearMessages /\ UNCHANGED <<bufVars, metVars, sysVars, concVars, codecVars, lastRecent, lifeVars, obsVars, lateVars>>
    \/ ClearAllMessages /\ UNCHANGED <<bufVars, metVars, sysVars, concVars, codecVars, lastRecent, lifeVars, obsVars, lateVars>>
    \/ ShutdownCancel /\ UNCHANGED <<bufVars, metVars, sysVars, concVars, codecVars, lastRecent, lifeVars, obsVars, lateVars>>
    \/ ShutdownStopAll /\ UNCHANGED <<bufVars, metVars, sysVars, concVars, codecVars, lastRecent, lifeVars, obsVars, lateVars>>
    \/ LoopStart /\ UNCHANGED <<bufVars, metVars, sysVars, concVars, codecVars, lastRecent, lifeVars, obsVars, lateVars>>
    \/ LoopSelectDefault /\ UNCHANGED <<bufVars, metVars, sysVars, concVars, codecVars, lastRecent, lifeVars, obsVars, lateVars>>
    \/ LoopReceive /\ UNCHANGED <<bufVars, metVars, sysVars, concVars, codecVars, lastRecent, lifeVars, obsVars, lateVars>>
    \/ LoopReadError /\ UNCHANGED <<bufVars, metVars, sysVars, concVars, codecVars, lastRecent, lifeVars, obsVars, lateVars>>
    \/ LoopExit /\ UNCHANGED <<bufVars, metVars, sysVars, concVars, codecVars, lastRecent, lifeVars, obsVars, lateVars>>

SpecListener == LsnInitOnly /\ [][LsnNext]_vars

\* One capture loop and the reads it gets.
CaptureInitOnly ==
    CaptureInit /\ LifeIdle /\ ObsIdle /\ LateIdle /\ lastRecent = NoRecent /\ BufIdle /\ MetIdle /\ SysIdle /\ ConcIdle

CaptureNext ==
    \/ CaptureRead /\ UNCHANGED <<bufVars, metVars, sysVars, concVars, lastRecent, lifeVars, obsVars, lateVars>>
    \/ LoopSelectDefault /\ UNCHANGED <<bufVars, metVars, sysVars, concVars, codecVars, lastRecent, lifeVars, obsVars, lateVars>>

SpecCapture == CaptureInitOnly /\ [][CaptureNext]_vars

\* The goroutines that take locks and operate on sockets.
LockInitOnly ==
    LockInit /\ QueryIdle /\ SetupIdle /\ LsnIdle /\ LifeIdle /\ ObsIdle /\ CodecIdle /\ lastRecent = NoRecent /\ BufIdle /\ MetIdle /\ SysIdle /\ ConcIdle

LockNext ==
    \/ StartListeningStep /\ UNCHANGED <<bufVars, metVars, sysVars, concVars, codecVars, lastRecent, lsnVars, lifeVars, obsVars, queryVars, setupVars>>
    \/ StopListeningStep /\ UNCHANGED <<bufVars, metVars, sysVars, concVars, codecVars, lastRecent, lsnVars, lifeVars, obsVars, queryVars, setupVars>>
    \/ SendMessageStep /\ UNCHANGED <<bufVars, metVars, sysVars, concVars, codecVars, lastRecent, lsnVars, lifeVars, obsVars, queryVars, setupVars>>
    \/ ListenLoopStep /\ UNCHANGED <<bufVars, metVars, sysVars, concVars, codecVars, lastRecent, lsnVars, lifeVars, obsVars, queryVars, setupVars>>

SpecLocks == LockInitOnly /\ [][LockNext]_vars

\* Status queries on concurrent HTTP goroutines.
QueryInitOnly ==
    QueryInit /\ LockIdle /\ SetupIdle /\ LsnIdle /\ LifeIdle /\ ObsIdle /\ CodecIdle /\ lastRecent = NoRecent /\ BufIdle /\ MetIdle /\ SysIdle /\ ConcIdle

QueryNext ==
    \E q \in Queries :
        CheckInterfaceHealthStep(q) /\ UNCHANGED <<bufVars, metVars, sysVars, concVars, codecVars, lastRecent, lsnVars, lifeVars, obsVars, lockVars, setupVars>>

SpecQueries == QueryInitOnly /\ [][QueryNext]_vars

\* Requests that change the setup configuration, on concurrent HTTP goroutines.
SetupInitOnly ==
    SetupInit /\ LockIdle /\ QueryIdle /\ LsnIdle /\ LifeIdle /\ ObsIdle /\ CodecIdle /\ lastRecent = NoRecent /\ BufIdle /\ MetIdle /\ SysIdle /\ ConcIdle

SetupNext ==
    \/ HandleUpdateSetupConfig /\ UNCHANGED <<bufVars, metVars, sysVars, concVars, codecVars, lastRecent, lsnVars, lifeVars, obsVars, lockVars, queryVars>>
    \/ \E r \in SetupRequests :
         HandleSetupInterfaceStep(r) /\ UNCHANGED <<bufVars, metVars, sysVars, concVars, codecVars, lastRecent, lsnVars, lifeVars, obsVars, lockVars, queryVars>>

SpecSetup == SetupInitOnly /\ [][SetupNext]_vars

\* The watchdog's lifecycle: the main goroutine's Start and Stop calls and the
\* monitor loops they create.
LifeInitOnly ==
    LifeInit /\ LsnIdle /\ ObsIdle /\ LateIdle /\ CodecIdle /\ lastRecent = NoRecent /\ BufIdle /\ MetIdle /\ SysIdle /\ ConcIdle

LifeNext ==
    \/ WatchdogStart /\ UNCHANGED <<bufVars, metVars, sysVars, concVars, codecVars, lastRecent, lsnVars, obsVars, lateVars>>
    \/ WatchdogStartGo /\ UNCHANGED <<bufVars, metVars, sysVars, concVars, codecVars, lastRecent, lsnVars, obsVars, lateVars>>
    \/ WatchdogStop /\ UNCHANGED <<bufVars, metVars, sysVars, concVars, codecVars, lastRecent, lsnVars, obsVars, lateVars>>
    \/ WatchdogStopClose /\ UNCHANGED <<bufVars, metVars, sysVars, concVars, codecVars, lastRecent, lsnVars, obsVars, lateVars>>
    \/ WatchdogStopWait /\ UNCHANGED <<bufVars, metVars, sysVars, concVars, codecVars, lastRecent, lsnVars, obsVars, lateVars>>
    \/ MonitorLoopTick /\ UNCHANGED <<bufVars, metVars, sysVars, concVars, codecVars, lastRecent, lsnVars, obsVars, lateVars>>
    \/ MonitorLoopExit /\ UNCHANGED <<bufVars, metVars, sysVars, concVars, codecVars, lastRecent, lsnVars, obsVars, lateVars>>
    \/ LifeCtxCancel /\ UNCHANGED <<bufVars, metVars, sysVars, concVars, codecVars, lastRecent, lsnVars, obsVars, lateVars>>

SpecLife == LifeInitOnly /\ [][LifeNext]_vars

\* The registry alone, under any sequence of its clients' calls.
RegInitOnly ==
    SysInit /\ wdConfig = DefaultWatchdogConfig /\ BufIdle /\ MetIdle /\ ConcIdle /\ ExtIdle

RegNext ==
    \/ RegInitializeAll /\ UNCHANGED <<bufVars, metVars, concVars, codecVars, lastRecent, lsnVars, lifeVars, lateVars>>
    \/ RegInitializeSingle /\ UNCHANGED <<bufVars, metVars, concVars, codecVars, lastRecent, lsnVars, lifeVars, lateVars>>
    \/ RegRemoveInterface /\ UNCHANGED <<bufVars, metVars, concVars, codecVars, lastRecent, lsnVars, lifeVars, lateVars>>
    \/ RegRecover /\ UNCHANGED <<bufVars, metVars, concVars, codecVars, lastRecent, lsnVars, lifeVars, lateVars>>
    \/ RegCleanup /\ UNCHANGED <<bufVars, metVars, concVars, codecVars, lastRecent, lsnVars, lifeVars, lateVars>>

SpecRegistry == RegInitOnly /\ [][RegNext]_vars

\* The watchdog under every configuration: start-up, sends, re-registration
\* by a client of the registry, ticks and their checks.
WdInitOnly ==
    WdInit /\ BufIdle /\ MetIdle /\ ConcIdle /\ ExtIdle

WdNext ==
    \/ BootWith(QuickScripts) /\ UNCHANGED <<bufVars, metVars, concVars, extVars>>
    \/ StartService /\ UNCHANGED <<bufVars, metVars, concVars, extVars>>
    \/ Reregister /\ UNCHANGED <<bufVars, metVars, concVars, extVars>>
    \/ SendWith(Range(ports), {<<7>>}, FALSE) /\ UNCHANGED <<bufVars, metVars, concVars, extVars>>
    \/ TickBegin /\ UNCHANGED <<bufVars, metVars, concVars, extVars>>
    \/ WdCheckObserved(QuickScripts) /\ UNCHANGED <<bufVars, metVars, concVars, codecVars, lastRecent, lsnVars, lifeVars, lateVars>>

SpecWd == WdInitOnly /\ [][WdNext]_vars

\* Start-up on one port, then status queries until the counters reach the
\* thresholds' boundaries.
HealthInitOnly ==
    WdInit /\ wdConfig = DefaultWatchdogConfig /\ BufIdle /\ MetIdle /\ ConcIdle /\ ExtIdle

HealthNext ==
    \/ BootWith(QuickScripts) /\ UNCHANGED <<bufVars, metVars, concVars, extVars>>
    \/ StartService /\ UNCHANGED <<bufVars, metVars, concVars, extVars>>
    \/ StatusQueryUpTo(MaxHealthChecks) /\ UNCHANGED <<bufVars, metVars, concVars, extVars>>

SpecHealth == HealthInitOnly /\ [][HealthNext]_vars

\* --------------------------------------------------------------- claims

\* C1: after n AddMessage calls since creation or the last Clear, a buffer of
\* capacity C >= 1 holds exactly the min(n, C) most recent messages in arrival
\* order, totalReceived is n, and once n = C + k (k > 0) the oldest k messages
\* are absent.
C1_RingBufferBound ==
    LET n == Len(bufHistory)
        k == n - buf.maxSize
    IN  /\ GetStatistics(buf).bufferedCount = Min(n, buf.maxSize)
        /\ buf.messages = LastN(bufHistory, buf.maxSize)
        /\ GetStatistics(buf).totalReceived = n
        /\ k > 0 => /\ Len(buf.messages) = buf.maxSize
                    /\ \A j \in 1..k : bufHistory[j] \notin Range(buf.messages)

\* C1 witness: a buffer of capacity 2 after 4 inserts (k = 2).
C1_Witness ==
    /\ buf.maxSize = 2
    /\ Len(bufHistory) = 4
    /\ buf.totalReceived = 4

\* The integer-truncated mean q of a non-empty sequence: q*k <= sum < (q+1)*k.
IsTruncatedMean(q, s) ==
    /\ q * Len(s) <= SumSeq(s)
    /\ SumSeq(s) < (q + 1) * Len(s)

\* C8: after n successful sends the latency window holds exactly the last
\* min(n, 100) latencies in order and AvgLatency is the integer-truncated mean
\* of exactly those samples.
C8_LatencyWindow ==
    LET n == Len(latHistory)
        retained == LastN(latHistory, 100)
    IN  /\ metrics.TotalSent = n
        /\ Len(metrics.MessageLatency) = Min(n, 100)
        /\ metrics.MessageLatency = retained
        /\ n > 0 => IsTruncatedMean(metrics.AvgLatency, retained)

\* C8 witness: 150 sends whose overall mean differs from the mean of the last 100.
C8_Witness ==
    /\ Len(latHistory) = 150
    /\ Len(metrics.MessageLatency) = 100
    /\ ~IsTruncatedMean(metrics.AvgLatency, latHistory)

\* C2: with recovery enabled and a ceiling of 3, an interface judged suspect
\* whose probe and reinitialization always fail is handled again on each
\* successive tick, so that once 3 ticks have completed since it was judged
\* suspect its recovery attempt counter is 3 (exhausted).
C2_RecoveryBound ==
    \A i \in Names :
        (/\ wdConfig.RecoveryEnabled
         /\ wdConfig.MaxRecoveryAttempts = 3
         /\ suspectTicks[i] >= 3)
            => getRecoveryAttempts(recoveryAttempts, i) = 3

\* C6: a SendCanMessage call with a payload longer than 8 bytes fails and makes
\* no SendTo call; the error is data-exceeds-maximum-length when the name is
\* configured and registered, the unconfigured error when the name is not
\* configured, and the not-initialized error when it is configured but not
\* registered.
C6_LengthBound ==
    (lastSend.valid /\ Len(lastSend.msg.Data) > 8) =>
        /\ lastSend.err # ErrNone
        /\ lastSend.sendToCalls = 0
        /\ (lastSend.configured /\ lastSend.registered) => lastSend.err = ErrDataTooLong
        /\ ~lastSend.configured => lastSend.err = ErrNotConfigured
        /\ (lastSend.configured /\ ~lastSend.registered) => lastSend.err = ErrNotInitialized

\* C6 witness: nine bytes sent to a configured, registered interface.
C6_Witness ==
    /\ lastSend.valid
    /\ Len(lastSend.msg.Data) = 9
    /\ lastSend.configured
    /\ lastSend.registered
    /\ lastSend.err = ErrDataTooLong

\* C6 as stated: a SendCanMessage call with a payload longer than 8 bytes always
\* fails with data-exceeds-maximum-length and makes no SendTo call.
C6_AlwaysInvalidFrame ==
    (lastSend.valid /\ Len(lastSend.msg.Data) > 8) =>
        /\ lastSend.err = ErrDataTooLong
        /\ lastSend.sendToCalls = 0

\* C7: a SendCanMessage call for a name outside the configured set fails with
\* the unconfigured error and makes no SendTo call, whatever the registry holds
\* and whatever the payload.
C7_UnconfiguredRejection ==
    (lastSend.valid /\ lastSend.msg.Interface \notin Range(ports)) =>
        /\ lastSend.err = ErrNotConfigured
        /\ lastSend.sendToCalls = 0

\* C7 witness: a valid payload sent to an unconfigured name that is registered.
C7_Witness ==
    /\ lastSend.valid
    /\ lastSend.msg.Interface \notin Range(ports)
    /\ lastSend.registered
    /\ Len(lastSend.msg.Data) <= 8
    /\ lastSend.err = ErrNotConfigured

\* C9: the InitializeAll call of start-up attempts every configured name in
\* order, returns an error exactly when no initialization succeeded (the error
\* then names the interfaces that failed), and leaves in the registry exactly
\* the names whose initialization succeeded.
C9_InitializeAll ==
    phase \in {"ready", "serving"} =>
        /\ initAll.attempted = ports
        /\ initAll.err <=> (initAll.succeeded = {})
        /\ initAll.err => initAll.named = Range(ports) \ initAll.succeeded
        /\ DOMAIN interfaces = initAll.succeeded

\* C9 witness: two configured names, one initialized and one not, no error.
C9_Witness ==
    /\ phase = "ready"
    /\ ~initAll.err
    /\ initAll.succeeded # {}
    /\ initAll.succeeded # Range(ports)
    /\ DOMAIN interfaces = initAll.succeeded

\* C10: a status snapshot has an entry for every configured name: active when
\* the name is in the registry, inactive with health "critical" when it is not.
C10_StatusCoversConfigured ==
    lastStatus.valid =>
        \A n \in Range(ports) :
            /\ n \in DOMAIN lastStatus.statuses
            /\ n \in lastStatus.registered => lastStatus.statuses[n].Active
            /\ n \notin lastStatus.registered =>
                  /\ ~lastStatus.statuses[n].Active
                  /\ lastStatus.statuses[n].Health = "critical"

\* C10 witness: a snapshot taken with one configured name registered and
\* another one absent.
C10_Witness ==
    /\ lastStatus.valid
    /\ \E n \in Range(ports) : n \in lastStatus.registered
    /\ \E n \in Range(ports) :
          /\ n \notin lastStatus.registered
          /\ n \in DOMAIN lastStatus.statuses
          /\ ~lastStatus.statuses[n].Active

\* C3: for every device, at most one goroutine is inside a socket transmit (the
\* SendTo of a user send or of a health probe) at any time, under every
\* interleaving of senders, status queries and the watchdog.
C3_DeviceMutualExclusion ==
    \A d \in DOMAIN heap :
        Cardinality({p \in Procs : InTransmit(p) /\ held[p] = d}) <= 1

\* C3 witness: a health probe is transmitting on a device while a user send on
\* the same device stands at its Lock.
C3_Witness ==
    \E s \in Senders, p \in Checkers :
        /\ pc[p] = "probe"
        /\ pc[s] = "Lock"
        /\ held[s] = held[p]
        /\ mutex[held[p]] = p

\* C4: a send on interface A never waits for a lock held by an operation on a
\* different interface B, and never fails because of an operation on B.
C4_CrossInterfaceIsolation ==
    /\ \A s \in Senders :
          ~(/\ fatal.valid
            /\ fatal.reader = s
            /\ fatal.writerTarget # fatal.readerTarget)
    /\ \A s \in Senders, p \in Procs :
          (p # s /\ pc[s] = "Lock" /\ mutex[held[s]] = p) => target[p] = target[s]

\* C5: no goroutine is inside a read of the registry map while another is
\* inside an insert into it or a delete from it.
C5_RegistryGuarded ==
    \A r \in Procs, w \in Procs :
        ~(r # w /\ InMapRead(r) /\ InMapWrite(w))

\* C11: a frame with identifier id and a payload of length L in 0..8, encoded
\* by the send path and decoded by a capture loop, is logged with the same id,
\* the same L and the same L payload bytes.
C11_CodecRoundTrip ==
    (rxFrame.valid /\ wire.kind = "send") =>
        /\ rxFrame.ID = txFrame.ID
        /\ rxFrame.Length = Len(txFrame.Data)
        /\ rxFrame.Data = txFrame.Data

\* C11 witness: a five-byte payload of different bytes under identifier
\* 0x01020304, decoded on a big-endian host.
C11_Witness ==
    /\ rxFrame.valid
    /\ wire.kind = "send"
    /\ hostOrder = "big"
    /\ txFrame.ID = Uint32(258, 772)
    /\ Len(txFrame.Data) = 5
    /\ txFrame.Data[2] # txFrame.Data[1]
    /\ rxFrame.Data = txFrame.Data

\* C12: the 16 bytes handed to the transport for a send hold the identifier in
\* bytes 0-3, the payload length in byte 4, zero in bytes 5-7, the payload from
\* byte 8 on and zero in every payload byte beyond the length; the probe's
\* buffer is that layout with identifier 0, length 1 and a zero payload.
C12_WireLayout ==
    LET b == wire.bytes
        d == txFrame.Data
    IN  /\ wire.kind = "send" =>
              /\ Len(b) = 16
              /\ Uint32Of(hostOrder, <<b[1], b[2], b[3], b[4]>>) = txFrame.ID
              /\ b[5] = Len(d)
              /\ \A i \in 6..8 : b[i] = 0
              /\ \A i \in 1..8 : b[8 + i] = IF i <= Len(d) THEN d[i] ELSE 0
        /\ wire.kind = "probe" =>
              /\ Len(b) = 16
              /\ b[5] = 1
              /\ \A i \in (1..16) \ {5} : b[i] = 0

\* C12 witness: a three-byte payload of non-zero bytes has been handed over.
C12_Witness ==
    /\ wire.kind = "send"
    /\ Len(txFrame.Data) = 3
    /\ txFrame.Data[3] = 255
    /\ wire.bytes[11] = 255
    /\ wire.bytes[12] = 0

\* C16: GetRecentMessages(count) on a buffer holding m messages returns the
\* empty list when count <= 0, all m messages when count >= m, and otherwise
\* the last count messages in arrival order; the buffer is unchanged.
C16_RecentMessages ==
    lastRecent.valid =>
        LET msgs == lastRecent.before.messages
            m == Len(msgs)
            c == lastRecent.count
        IN  /\ c <= 0 => lastRecent.result = <<>>
            /\ c >= m => lastRecent.result = msgs
            /\ (0 < c /\ c < m) =>
                  /\ Len(lastRecent.result) = c
                  /\ \A i \in 1..c : lastRecent.result[i] = msgs[m - c + i]
            /\ lastRecent.after = lastRecent.before

\* C16 witness: the last 2 of 3 buffered messages were asked for.
C16_Witness ==
    /\ lastRecent.valid
    /\ lastRecent.count = 2
    /\ Len(lastRecent.before.messages) = 3
    /\ lastRecent.result # SubSeq(lastRecent.before.messages, 1, 2)

SocketClosed(d) ==
    \/ heap[d].FD \notin openFds
    \/ \E e \in DOMAIN heap : e > d /\ heap[e].FD = heap[d].FD

\* C20: no goroutine is inside a SendTo (of a user send or of a probe) on a
\* device whose socket has already been closed.
C20_NoTransmitOnClosedSocket ==
    \A p \in Procs : InTransmit(p) => ~SocketClosed(held[p])

\* C13: a StartListening on a name that has a registered listener (no stop
\* since the start that registered it, no shutdown begun) returns success and
\* changes nothing: the same listener and the same buffer stay registered, no
\* socket is opened and no capture loop is created.
C13_StartListeningIdempotent ==
    (/\ lastLsnOp.op = "StartListening"
     /\ lastLsnOp.before.listeners[lastLsnOp.name] # 0
     /\ ~cml.ctxDone)
    => /\ lastLsnOp.err = ErrNone
       /\ lastLsnOp.after.listeners = lastLsnOp.before.listeners
       /\ lastLsnOp.after.buffers = lastLsnOp.before.buffers
       /\ lastLsnOp.after.fds = lastLsnOp.before.fds
       /\ lastLsnOp.after.nListeners = lastLsnOp.before.nListeners

\* C14: StopListening on a name with no registered listener returns the
\* not-listening error and changes nothing; on a registered name it signals
\* the capture loop, closes the socket and removes the listener, and
\* IsListening is false afterwards.
C14_StopListening ==
    lastLsnOp.op = "StopListening" =>
        IF lastLsnOp.before.listeners[lastLsnOp.name] = 0
        THEN /\ lastLsnOp.err = ErrNotListening
             /\ lastLsnOp.after = lastLsnOp.before
        ELSE /\ lastLsnOp.err = ErrNone
             /\ \/ lastLsnOp.signalled
                \/ lsnObjs[lastLsnOp.target].loop = "exited"
             /\ lsnObjs[lastLsnOp.target].socket \notin lastLsnOp.after.fds
             /\ lastLsnOp.after.listeners[lastLsnOp.name] = 0
             /\ ~lastLsnOp.after.listening[lastLsnOp.name]

\* C15: no call other than ClearMessages and ClearAllMessages, and no
\* arrival, lowers the total-received count reported for any name; a clear
\* leaves the cleared buffers empty with a count of zero.
C15_TotalReceivedMonotone ==
    /\ lastLsnOp.op \notin {"ClearMessages", "ClearAllMessages"}
         => \A n \in LNames : lastLsnOp.after.totals[n] >= lastLsnOp.before.totals[n]
    /\ (lastLsnOp.op = "ClearMessages" /\ lastLsnOp.err = ErrNone)
         => /\ lastLsnOp.after.totals[lastLsnOp.name] = 0
            /\ lastLsnOp.after.buffered[lastLsnOp.name] = 0
    /\ lastLsnOp.op = "ClearAllMessages"
         => \A n \in LNames : lastLsnOp.after.totals[n] = 0 /\ lastLsnOp.after.buffered[n] = 0

\* C17: when Shutdown returns no listener is registered and no listening
\* descriptor is open.
C17_ShutdownReleasesAll ==
    lastLsnOp.op = "Shutdown" =>
        /\ \A n \in LNames : lastLsnOp.after.listeners[n] = 0
        /\ lastLsnOp.after.fds = {}

\* C18: a Stop on a watchdog that is not running (never started, or stopped)
\* returns nil and changes nothing; a Start on a running watchdog returns nil
\* and creates no goroutine; at no time are there two monitor loops.
C18_StartStopIdempotent ==
    /\ (lastWdOp.op = "Stop" /\ ~lastWdOp.before.running)
         => lastWdOp.err = ErrNone /\ lastWdOp.after = lastWdOp.before
    /\ (lastWdOp.op = "Start" /\ lastWdOp.before.running)
         => /\ lastWdOp.err = ErrNone
            /\ lastWdOp.after.spawned = lastWdOp.before.spawned
            /\ lastWdOp.after.loops = lastWdOp.before.loops
    /\ wdLife.loops <= 1

C18_Witness ==
    /\ lastWdOp.noops = {"Start", "Stop"}
    /\ lastWdOp.op = "Stop"
    /\ ~lastWdOp.before.running
    /\ lastWdOp.before.spawned >= 1
    /\ lastWdOp.after = lastWdOp.before

\* The index of the attempt of a script that succeeds (0: none does).
FirstOk(script) ==
    IF ScriptSucceeds(script)
    THEN CHOOSE i \in 1..Retries : script[i] = "ok" /\ \A j \in 1..(i - 1) : script[j] # "ok"
    ELSE 0

\* C25: an InitializeSingle call makes at most 5 attempts and stops at the
\* first that succeeds (each failed attempt is followed by one retry delay);
\* no socket of a failed attempt stays open; when every attempt fails it
\* returns an error and the registry's entries are as before; when one
\* succeeds it returns nil and exactly one new open socket, the lowest free
\* descriptor, is registered under the name.
C25_InitializeSingle ==
    lastInit.valid =>
        LET b == lastInit.before
            a == lastInit.after
            k == FirstOk(lastInit.script)
            failed == (a.now - b.now) \div RetryDelay
        IN  /\ failed <= Retries
            /\ a.now = b.now + failed * RetryDelay
            /\ IF k = 0
               THEN /\ lastInit.err
                    /\ failed = Retries
                    /\ a.interfaces = b.interfaces
                    /\ a.openFds = b.openFds
                    /\ a.heap = b.heap
               ELSE /\ ~lastInit.err
                    /\ failed = k - 1
                    /\ a.openFds = b.openFds \cup {LowestFreeFd(b.openFds)}
                    /\ Len(a.heap) = Len(b.heap) + 1
                    /\ lastInit.name \in DOMAIN a.interfaces
                    /\ a.interfaces[lastInit.name] = Len(a.heap)
                    /\ a.heap[Len(a.heap)].FD = LowestFreeFd(b.openFds)
                    /\ a.heap[Len(a.heap)].Name = lastInit.name
                    /\ \A n \in DOMAIN b.interfaces :
                         n # lastInit.name =>
                            n \in DOMAIN a.interfaces /\ a.interfaces[n] = b.interfaces[n]
                    /\ DOMAIN a.interfaces = DOMAIN b.interfaces \cup {lastInit.name}

C25_Witness ==
    /\ lastInit.valid
    /\ ~lastInit.err
    /\ FirstOk(lastInit.script) = 3
    /\ lastInit.script[1] = "bind"
    /\ lastInit.before.openFds # {}

\* C26: every open send-path socket is the socket of exactly one registry
\* entry.
C26_NoSocketLeak ==
    \A fd \in openFds :
        Cardinality({n \in DOMAIN interfaces : heap[interfaces[n]].FD = fd}) = 1

\* The registry and the counters are as they were before the last check.
WdCheckChangedNothing ==
    /\ lastWdCheck.after = lastWdCheck.before
    /\ lastWdCheck.raAfter = lastWdCheck.raBefore
    /\ ~lastWdCheck.reinit

\* C21: under a fixed configuration every recovery attempt counter is at
\* most the ceiling, and a failed probe of an interface whose counter has
\* reached the ceiling calls neither RemoveInterface nor InitializeSingle and
\* leaves the counter as it was.
C21_RecoveryCeiling ==
    /\ \A n \in Names :
         getRecoveryAttempts(recoveryAttempts, n) <= wdConfig.MaxRecoveryAttempts
    /\ (/\ lastWdCheck.valid
        /\ lastWdCheck.probed /\ ~lastWdCheck.healthy
        /\ getRecoveryAttempts(lastWdCheck.raBefore, lastWdCheck.name)
              >= wdConfig.MaxRecoveryAttempts)
       => WdCheckChangedNothing

C21_Witness ==
    /\ lastWdCheck.valid
    /\ wdConfig.RecoveryEnabled
    /\ lastWdCheck.probed /\ ~lastWdCheck.healthy
    /\ getRecoveryAttempts(lastWdCheck.raBefore, lastWdCheck.name) = wdConfig.MaxRecoveryAttempts
    /\ lastWdCheck.name \in DOMAIN lastWdCheck.before.interfaces

\* C22: after a successful probe, and after a successful reinitialization,
\* the interface's counter is zero; a check raises a counter only when its
\* reinitialization failed, and then that interface's counter by one.
C22_CounterResetAndIncrement ==
    lastWdCheck.valid =>
        /\ (lastWdCheck.probed /\ lastWdCheck.healthy)
             => getRecoveryAttempts(lastWdCheck.raAfter, lastWdCheck.name) = 0
        /\ lastWdCheck.recovered
             => getRecoveryAttempts(lastWdCheck.raAfter, lastWdCheck.name) = 0
        /\ \A n \in Names :
             getRecoveryAttempts(lastWdCheck.raAfter, n) > getRecoveryAttempts(lastWdCheck.raBefore, n)
                => /\ n = lastWdCheck.name
                   /\ lastWdCheck.reinit /\ ~lastWdCheck.recovered
                   /\ getRecoveryAttempts(lastWdCheck.raAfter, n)
                        = getRecoveryAttempts(lastWdCheck.raBefore, n) + 1

C22_Witness ==
    /\ lastWdCheck.valid
    /\ lastWdCheck.probed /\ lastWdCheck.healthy
    /\ getRecoveryAttempts(lastWdCheck.raBefore, lastWdCheck.name) >= 1
    /\ getRecoveryAttempts(lastWdCheck.raAfter, lastWdCheck.name) = 0

\* C23: a check probes the interface exactly when it has a recorded send
\* error, its last successful send is not later than that error, and the error
\* is younger than the staleness threshold; a check that does not probe
\* changes neither the registry nor the counters.
C23_ProbeCondition ==
    lastWdCheck.valid =>
        LET st == lastWdCheck.stats
        IN  /\ lastWdCheck.probed <=>
                  /\ st.LastErrorTime # 0
                  /\ st.LastSendTime <= st.LastErrorTime
                  /\ lastWdCheck.at - st.LastErrorTime < ErrorThreshold
            /\ ~lastWdCheck.probed => WdCheckChangedNothing

C23_Witness ==
    /\ lastWdCheck.valid
    /\ ~lastWdCheck.probed
    /\ lastWdCheck.stats.LastErrorTime # 0
    /\ lastWdCheck.stats.LastSendTime <= lastWdCheck.stats.LastErrorTime
    /\ lastWdCheck.at - lastWdCheck.stats.LastErrorTime >= ErrorThreshold

\* C24: with recovery disabled a failed probe leaves the registry's entries,
\* the open sockets and every counter as they were.
C24_RecoveryDisabled ==
    (/\ lastWdCheck.valid
     /\ ~wdConfig.RecoveryEnabled
     /\ lastWdCheck.probed /\ ~lastWdCheck.healthy)
    => /\ WdCheckChangedNothing
       /\ lastWdCheck.name \in DOMAIN interfaces
       /\ heap[interfaces[lastWdCheck.name]].FD \in openFds

C24_Witness ==
    /\ lastWdCheck.valid
    /\ ~wdConfig.RecoveryEnabled
    /\ lastWdCheck.probed /\ ~lastWdCheck.healthy
    /\ lastWdCheck.name \in DOMAIN lastWdCheck.after.interfaces
    /\ lastWdCheck.after.openFds # {}

\* C27: no Start or Stop call panics, and a watchdog started again after a
\* Stop has a stop channel that is open, so that its new loop stays to serve
\* ticks.
C27_Restartable ==
    /\ ~wdLife.panicked
    /\ (wdCall = "idle" /\ wdLife.running /\ wdLife.spawned >= 2)
         => ~wdLife.stopChanClosed

\* C28: between calls, the running flag IsRunning reports is true exactly
\* when a monitor loop is alive.
C28_IsRunningMeansLoopAlive ==
    (wdCall = "idle" /\ ~wdLife.panicked) => (wdLife.running <=> wdLife.loops > 0)

\* C29: outside a Shutdown in progress, the capture loop of every registered
\* listener is yet to run or running: it has not exited.
C29_StartedListenerKeepsRunning ==
    \A n \in LNames :
        (/\ cml.listeners[n] # 0
         /\ ~(cml.ctxDone /\ ~cml.shutdownReturned))
        => lsnObjs[cml.listeners[n]].loop # "exited"

\* C30: no frame is read and appended by the capture loop of a listener for
\* which a stop has returned.
C30_StoppedLoopIsSilent ==
    lastLsnOp.op = "arrival" => ~lsnObjs[lastLsnOp.target].stopped


\* C31: a StartListening that returns an error leaves the listener state as
\* it was: the same listeners, the same open sockets, and for every interface
\* the same buffered messages and total-received count.
C31_FailedStartChangesNothing ==
    (lastLsnOp.op = "StartListening" /\ lastLsnOp.err # ErrNone)
    => /\ lastLsnOp.after.listeners = lastLsnOp.before.listeners
       /\ lastLsnOp.after.fds = lastLsnOp.before.fds
       /\ lastLsnOp.after.totals = lastLsnOp.before.totals
       /\ lastLsnOp.after.buffered = lastLsnOp.before.buffered

\* C32: a read of at least 16 bytes appends exactly one entry with the
\* frame's identifier, its length byte, that many payload bytes and direction
\* RX, and the loop keeps running; any other read appends nothing.
C32_EveryFullReadIsLogged ==
    lastLsnOp.op = "read" =>
        LET b == bufObjs[1]
        IN  IF wire.kind = "read" /\ Len(wire.bytes) >= 16
            THEN /\ lsnObjs[1].loop \in {"running", "reading"}
                 /\ lastLsnOp.after.totals["can0"] = lastLsnOp.before.totals["can0"] + 1
                 /\ b.messages # <<>>
                 /\ LET m == b.messages[Len(b.messages)]
                    IN  /\ m.ID = Uint32Of(hostOrder, SubSeq(wire.bytes, 1, 4))
                        /\ m.Length = wire.bytes[5]
                        /\ Len(m.Data) = m.Length
                        /\ m.Direction = "RX"
            ELSE /\ lsnObjs[1].loop \in {"running", "reading"}
                 /\ lastLsnOp.after.totals = lastLsnOp.before.totals
                 /\ lastLsnOp.after.buffered = lastLsnOp.before.buffered

\* C33: a socket operation is performed with no lock held, or with the
\* device mutex alone, and then it is the one transmit of that critical
\* section.
C33_OnlyDeviceLockAcrossIo ==
    lastIo.valid =>
        \/ lastIo.locks = {}
        \/ lastIo.locks = {"deviceMutex"} /\ lastIo.op = "send" /\ lastIo.nth = 1

\* C34: the success rate of every stats snapshot is between 0 and 100: the
\* uint64 difference TotalSent - TotalErrors has not wrapped around.
C34_SuccessRateInRange ==
    SuccessRateInRange(GetStats(metrics))

\* C35: the health a status query reports for an interface follows from the
\* interface's cumulative counters: healthy iff passed/(passed+failed) >= 95%,
\* warning iff >= 80% and < 95%, critical iff < 80%; a tracker is classified
\* "unknown" exactly when it has recorded no check.
C35_HealthClassification ==
    /\ \A n \in Names :
         LET tr == IF n \in DOMAIN healthChecks THEN healthChecks[n] ELSE NewHealthTracker
         IN  determineHealthStatus(tr) = "unknown" <=> tr.ChecksPassed + tr.ChecksFailed = 0
    /\ lastStatus.valid =>
         \A n \in lastStatus.registered :
            LET passed == healthChecks[n].ChecksPassed
                total == passed + healthChecks[n].ChecksFailed
                health == lastStatus.statuses[n].Health
            IN  /\ total > 0
                /\ health = "healthy" <=> 100 * passed >= 95 * total
                /\ health = "warning" <=> (100 * passed >= 80 * total /\ 100 * passed < 95 * total)
                /\ health = "critical" <=> 100 * passed < 80 * total

C35_Witness ==
    /\ lastStatus.valid
    /\ "can0" \in lastStatus.registered
    /\ healthChecks["can0"] = [ChecksPassed |-> 19, ChecksFailed |-> 1]
    /\ lastStatus.statuses["can0"].Health = "healthy"

\* C36: when no status query is in progress, the checks recorded for the
\* interface are as many as the probes the queries made: no result is lost.
C36_NoProbeResultLost ==
    (\A q \in Queries : qPc[q].at \in {"idle", "done"}) => ChecksRecorded = qs.probes

\* C39: an UpdateSetupConfig that returns a validation error leaves the
\* stored configuration as it was.
C39_RejectedConfigNotStored ==
    (lastSetup.valid /\ lastSetup.err # ErrNone) => lastSetup.after = lastSetup.before

\* C40: once every single-interface setup request has completed, and no
\* configuration update was requested, the configuration is the one in effect
\* before the requests.
C40_OverrideUndone ==
    (/\ \A r \in SetupRequests : suPc[r].at \in {"idle", "done"}
     /\ ~lastSetup.valid)
    => setupConfig = DefaultInterfaceSetupConfig

\* C37: a message with an empty payload is rejected by ValidateMessage, and
\* SendCanMessage rejects it too, without a SendTo call.
C37_EmptyPayloadRejected ==
    (lastSend.valid /\ Len(lastSend.msg.Data) = 0) =>
        /\ ValidateMessage(lastSend.msg) # ErrNone
        /\ lastSend.err # ErrNone
        /\ lastSend.sendToCalls = 0

\* C38: Cleanup makes exactly one Close call on the socket of every device
\* that was registered and leaves the registry empty, whichever of those Close
\* calls fail; afterwards no name is found by a lookup, CheckHealth is false
\* for every name whatever the probe would do, and none of those sockets is
\* open.
C38_CleanupClosesAllOnce ==
    lastCleanup.valid =>
        /\ DOMAIN lastCleanup.closes = lastCleanup.registered
        /\ \A n \in lastCleanup.registered : lastCleanup.closes[n] = 1
        /\ lastCleanup.after.interfaces = <<>>
        /\ lastCleanup.after.openFds = {}
        /\ \A n \in Names :
             /\ GetInterface(lastCleanup.after, n) = 0
             /\ \A sendOk \in BOOLEAN : ~CheckHealth(lastCleanup.after, n, sendOk)

\* Cleanup has run on a registry of two devices, a Close failing.
C38_Witness ==
    /\ lastCleanup.valid
    /\ Cardinality(lastCleanup.registered) = 2
    /\ lastCleanup.failed # {}
    /\ lastCleanup.failed # lastCleanup.registered


============================================================================
